---- MODULE Spec2Model ----
(***************************************************************************)
(* Inventory-System backend: the sale / purchase-order handlers that move  *)
(* stock and write the inventory ledger, and the pricing resolver.         *)
(*                                                                         *)
(* The database is one record `db` of tables.  A handler is an operator    *)
(* from (db, current_user, request) to [status, db]: it works on a session *)
(* copy of the tables and ends in db.commit() or db.rollback().            *)
(* Money is an integer number of currency units; an Optional value is the  *)
(* empty tuple (None) or a one-element tuple.                              *)
(*                                                                         *)
(* The handlers are modelled as routes/sale.py reads its request: the      *)
(* request carries payment_type and items.  Sale header fields that are    *)
(* copied and never read again (sale_date, notes, sale_type) are left out. *)
(***************************************************************************)
EXTENDS Integers, Sequences, FiniteSets, TLC

VARIABLES db, last, workload, txn

vars == <<db, last, workload, txn>>

----------------------------------------------------------------------------
(* Bounds of the model *)

MaxItems == 2

MaxSales == 2

MaxLedger == 4

MaxPOs == 2

MaxCats == 3

MaxTiers == 2

MaxCatalogPOs == 1

\* categories created on top of the initial tree
MaxNewCats == 1

----------------------------------------------------------------------------
(* Optional values *)

None == <<>>

Some(x) == <<x>>

IsSet(o) == o # None

Val(o) == o[1]

----------------------------------------------------------------------------
(* Users, products and request inputs *)

Users == {1, 2}

\* the authenticated user of the requests (get_current_user)
Callers == {1}

\* users.credit_card_fee_flat of each user
credit_card_fee_flat == [u \in Users |-> IF u = 1 THEN 2 ELSE 0]

\* products 1 and 2 belong to the caller, 3 to another user; 4 is the id of no row
InitProducts ==
    (1 :> [user_id |-> 1, quantity_in_stock |-> 5]) @@
    (2 :> [user_id |-> 1, quantity_in_stock |-> 0]) @@
    (3 :> [user_id |-> 2, quantity_in_stock |-> 2])

\* SaleItemCreate values (schemas/sale.py: quantity > 0, unit_price >= 0) that
\* name a product of the caller
OwnedItemInputs ==
    { [product_id |-> 1, quantity |-> 1, unit_price |-> 12],
      [product_id |-> 1, quantity |-> 3, unit_price |-> 12],
      [product_id |-> 2, quantity |-> 3, unit_price |-> 12] }

\* SaleItemCreate values of the requests that may fail: a product of the caller,
\* a product of another user, a product that does not exist
AnyItemInputs ==
    { [product_id |-> 1, quantity |-> 3, unit_price |-> 12],
      [product_id |-> 2, quantity |-> 3, unit_price |-> 12],
      [product_id |-> 3, quantity |-> 1, unit_price |-> 12],
      [product_id |-> 4, quantity |-> 1, unit_price |-> 12] }

RECURSIVE SeqsUpTo(_, _)
SeqsUpTo(S, n) ==
    IF n = 0 THEN { <<>> }
    ELSE LET shorter == SeqsUpTo(S, n - 1)
         IN  shorter \cup { Append(s, x) : s \in { t \in shorter : Len(t) = n - 1 }, x \in S }

\* payment_type strings of requests; "" stands for an omitted or empty value
PaymentTypes == { "", "cash", "credit_card", "Credit_Card" }

\* SaleCreate values: conlist(SaleItemCreate, min_items=1)
SaleCreateOwned ==
    { [payment_type |-> pt, items |-> its] :
        pt \in PaymentTypes, its \in SeqsUpTo(OwnedItemInputs, MaxItems) \ { <<>> } }

SaleCreateAny ==
    { [payment_type |-> "", items |-> its] :
        its \in SeqsUpTo(AnyItemInputs, MaxItems) \ { <<>> } }

\* two requests: one item, and two items of different products with an oversell
SaleCreateLedger ==
    { [payment_type |-> "",
       items |-> << [product_id |-> 1, quantity |-> 3, unit_price |-> 12] >>],
      [payment_type |-> "credit_card",
       items |-> << [product_id |-> 1, quantity |-> 1, unit_price |-> 12],
                    [product_id |-> 2, quantity |-> 3, unit_price |-> 12] >>] }

\* the requests of a workload
SaleCreate == IF workload = "errors" THEN SaleCreateAny ELSE SaleCreateOwned

----------------------------------------------------------------------------
(* Session end *)

\* db.commit(): the session's pending state becomes the stored state
db_commit(stored, pending) == pending

\* variant: the writes made before the failure stay
db_rollback_Keep(stored, pending) == pending

\* db.rollback(): the session's pending state is discarded
db_rollback(stored, pending) == stored

----------------------------------------------------------------------------
(* routes/sale.py helpers *)

\* _get_product: the product row with this id owned by user_id, else None
_get_product(d, product_id, user_id) ==
    IF product_id \in DOMAIN d.products /\ d.products[product_id].user_id = user_id
    THEN Some(product_id)
    ELSE None

\* _get_sale: the sale row with this id owned by user_id, else None
_get_sale(d, sale_id, user_id) ==
    IF sale_id \in DOMAIN d.sales /\ d.sales[sale_id].user_id = user_id
    THEN Some(sale_id)
    ELSE None

\* Sale.items: the sale_items rows of a sale, in row order
SaleItemsOf(d, sale_id) == SelectSeq(d.sale_items, LAMBDA it : it.sale_id = sale_id)

InventoryLog(product_id, change_type, change_amount, note) ==
    [product_id |-> product_id, change_type |-> change_type,
     change_amount |-> change_amount, note |-> note]

SetStock(d, product_id, q) ==
    [d EXCEPT !.products[product_id].quantity_in_stock = q]

\* variant: the ledger entry is written but the stock is not restored
RevertItem_NoStock(d, it, user_id, note_prefix) ==
    LET product == _get_product(d, it.product_id, user_id)
    IN  IF IsSet(product)
        THEN [d EXCEPT !.inventory_logs =
                 Append(@, InventoryLog(Val(product), "revert_sale", it.quantity,
                                        <<note_prefix, it.sale_id>>))]
        ELSE d

\* body of the loop of _revert_inventory_for_items for one item
RevertItem(d, it, user_id, note_prefix) ==
    LET product == _get_product(d, it.product_id, user_id)
    IN  IF IsSet(product)
        THEN LET d1 == SetStock(d, Val(product),
                                d.products[Val(product)].quantity_in_stock + it.quantity)
             IN  [d1 EXCEPT !.inventory_logs =
                     Append(@, InventoryLog(Val(product), "revert_sale", it.quantity,
                                            <<note_prefix, it.sale_id>>))]
        ELSE d

RECURSIVE _revert_inventory_for_items(_, _, _, _)
_revert_inventory_for_items(d, items, user_id, note_prefix) ==
    IF items = <<>> THEN d
    ELSE _revert_inventory_for_items(RevertItem(d, Head(items), user_id, note_prefix),
                                     Tail(items), user_id, note_prefix)

\* str.lower on the payment_type strings
lower(str) == IF str = "Credit_Card" THEN "credit_card" ELSE str

_recalc_processing_fee_Any(payment_type, fee_flat) == fee_flat

\* _recalc_processing_fee: the fee of a sale with this payment_type.  Fees are
\* whole cents, which round(fee, 2) leaves as they are.
_recalc_processing_fee(payment_type, fee_flat) ==
    IF lower(payment_type) = "credit_card" THEN fee_flat ELSE 0

\* variant: the new stock is computed from the stored row, not from the row
\* the session has already changed
SellItem_Stale(d, sale_id, item, note) ==
    LET d1 == [d EXCEPT !.sale_items =
                  Append(@, [sale_id |-> sale_id, product_id |-> item.product_id,
                             quantity |-> item.quantity, unit_price |-> item.unit_price])]
        d2 == SetStock(d1, item.product_id,
                       db.products[item.product_id].quantity_in_stock - item.quantity)
    IN  [d2 EXCEPT !.inventory_logs =
            Append(@, InventoryLog(item.product_id, "sale", -item.quantity, note))]

\* variant: the stock is clamped at zero
SellItem_Clamp(d, sale_id, item, note) ==
    LET d1 == [d EXCEPT !.sale_items =
                  Append(@, [sale_id |-> sale_id, product_id |-> item.product_id,
                             quantity |-> item.quantity, unit_price |-> item.unit_price])]
        q  == d1.products[item.product_id].quantity_in_stock - item.quantity
        d2 == SetStock(d1, item.product_id, IF q < 0 THEN 0 ELSE q)
    IN  [d2 EXCEPT !.inventory_logs =
            Append(@, InventoryLog(item.product_id, "sale", -item.quantity, note))]

\* body of the item loop of create_sale / update_sale once the product is found
SellItem(d, sale_id, item, note) ==
    LET d1 == [d EXCEPT !.sale_items =
                  Append(@, [sale_id |-> sale_id, product_id |-> item.product_id,
                             quantity |-> item.quantity, unit_price |-> item.unit_price])]
        d2 == SetStock(d1, item.product_id,
                       d1.products[item.product_id].quantity_in_stock - item.quantity)
    IN  [d2 EXCEPT !.inventory_logs =
            Append(@, InventoryLog(item.product_id, "sale", -item.quantity, note))]

\* the item loop from item i on: stops at the first item whose product is not
\* found (raise 404); failed_at is the position of that item, 0 when none
RECURSIVE SellItems(_, _, _, _, _, _)
SellItems(d, sale_id, items, i, user_id, note) ==
    IF i > Len(items) THEN [failed_at |-> 0, db |-> d]
    ELSE IF ~IsSet(_get_product(d, items[i].product_id, user_id))
         THEN [failed_at |-> i, db |-> d]
         ELSE SellItems(SellItem(d, sale_id, items[i], note),
                        sale_id, items, i + 1, user_id, note)

----------------------------------------------------------------------------
(* routes/sale.py handlers *)

create_sale(d, current_user, sale_data) ==
    IF sale_data.items = <<>>
    THEN [status |-> 400, db |-> d, sale_id |-> 0, failed_at |-> 0]
    ELSE
    LET new_id == d.next_sale_id
        pt == IF sale_data.payment_type = "" THEN "cash" ELSE sale_data.payment_type
        s0 == [d EXCEPT !.sales = @ @@ (new_id :>
                            [user_id |-> current_user, payment_type |-> pt,
                             processing_fee |-> 0]),
                        !.next_sale_id = @ + 1]
        s1 == SellItems(s0, new_id, sale_data.items, 1, current_user,
                        <<"Sold via sale (new)">>)
        s2 == [s1.db EXCEPT !.sales[new_id].processing_fee =
                  _recalc_processing_fee(pt, credit_card_fee_flat[current_user])]
    IN  IF s1.failed_at # 0
        THEN [status |-> 404, db |-> db_rollback(d, s1.db), sale_id |-> 0,
              failed_at |-> s1.failed_at]
        ELSE [status |-> 200, db |-> db_commit(d, s2), sale_id |-> new_id, failed_at |-> 0]

\* variant: the old items are replaced without returning their stock
update_sale_NoRevert(d, current_user, sale_id, updated_data) ==
    LET sale == _get_sale(d, sale_id, current_user)
    IN  IF ~IsSet(sale)
        THEN [status |-> 404, db |-> db_rollback(d, d), sale_id |-> sale_id, failed_at |-> 0]
        ELSE
        LET old_items == SaleItemsOf(d, sale_id)
            \* 1) revert inventory from existing items
            s1 == d
            \* 2) delete existing children
            s2 == [s1 EXCEPT !.sale_items = SelectSeq(@, LAMBDA it : it.sale_id # sale_id)]
            \* 3) update header
            pt == IF updated_data.payment_type = "" THEN d.sales[sale_id].payment_type
                  ELSE updated_data.payment_type
            s3 == [s2 EXCEPT !.sales[sale_id].payment_type = pt]
            \* 4) add new items and apply inventory deltas
            s4 == SellItems(s3, sale_id, updated_data.items, 1, current_user,
                            <<"Updated sale", sale_id>>)
            s5 == [s4.db EXCEPT !.sales[sale_id].processing_fee =
                      _recalc_processing_fee(pt, credit_card_fee_flat[current_user])]
        IN  IF s4.failed_at # 0
            THEN [status |-> 404, db |-> db_rollback(d, s4.db), sale_id |-> sale_id,
                  failed_at |-> s4.failed_at]
            ELSE [status |-> 200, db |-> db_commit(d, s5), sale_id |-> sale_id,
                  failed_at |-> 0]

\* variant: a failure in the new item list undoes the new items only
update_sale_KeepRevert(d, current_user, sale_id, updated_data) ==
    LET sale == _get_sale(d, sale_id, current_user)
    IN  IF ~IsSet(sale)
        THEN [status |-> 404, db |-> db_rollback(d, d), sale_id |-> sale_id, failed_at |-> 0]
        ELSE
        LET old_items == SaleItemsOf(d, sale_id)
            \* 1) revert inventory from existing items
            s1 == _revert_inventory_for_items(d, old_items, current_user,
                                              "Reverted previous quantity for sale")
            \* 2) delete existing children
            s2 == [s1 EXCEPT !.sale_items = SelectSeq(@, LAMBDA it : it.sale_id # sale_id)]
            \* 3) update header
            pt == IF updated_data.payment_type = "" THEN d.sales[sale_id].payment_type
                  ELSE updated_data.payment_type
            s3 == [s2 EXCEPT !.sales[sale_id].payment_type = pt]
            \* 4) add new items and apply inventory deltas
            s4 == SellItems(s3, sale_id, updated_data.items, 1, current_user,
                            <<"Updated sale", sale_id>>)
            s5 == [s4.db EXCEPT !.sales[sale_id].processing_fee =
                      _recalc_processing_fee(pt, credit_card_fee_flat[current_user])]
        IN  IF s4.failed_at # 0
            THEN [status |-> 404, db |-> db_rollback(s1, s4.db), sale_id |-> sale_id,
                  failed_at |-> s4.failed_at]
            ELSE [status |-> 200, db |-> db_commit(d, s5), sale_id |-> sale_id,
                  failed_at |-> 0]

update_sale(d, current_user, sale_id, updated_data) ==
    LET sale == _get_sale(d, sale_id, current_user)
    IN  IF ~IsSet(sale)
        THEN [status |-> 404, db |-> db_rollback(d, d), sale_id |-> sale_id, failed_at |-> 0]
        ELSE
        LET old_items == SaleItemsOf(d, sale_id)
            \* 1) revert inventory from existing items
            s1 == _revert_inventory_for_items(d, old_items, current_user,
                                              "Reverted previous quantity for sale")
            \* 2) delete existing children
            s2 == [s1 EXCEPT !.sale_items = SelectSeq(@, LAMBDA it : it.sale_id # sale_id)]
            \* 3) update header
            pt == IF updated_data.payment_type = "" THEN d.sales[sale_id].payment_type
                  ELSE updated_data.payment_type
            s3 == [s2 EXCEPT !.sales[sale_id].payment_type = pt]
            \* 4) add new items and apply inventory deltas
            s4 == SellItems(s3, sale_id, updated_data.items, 1, current_user,
                            <<"Updated sale", sale_id>>)
            s5 == [s4.db EXCEPT !.sales[sale_id].processing_fee =
                      _recalc_processing_fee(pt, credit_card_fee_flat[current_user])]
        IN  IF s4.failed_at # 0
            THEN [status |-> 404, db |-> db_rollback(d, s4.db), sale_id |-> sale_id,
                  failed_at |-> s4.failed_at]
            ELSE [status |-> 200, db |-> db_commit(d, s5), sale_id |-> sale_id,
                  failed_at |-> 0]

delete_sale(d, current_user, sale_id) ==
    LET sale == _get_sale(d, sale_id, current_user)
    IN  IF ~IsSet(sale)
        THEN [status |-> 404, db |-> db_rollback(d, d), sale_id |-> sale_id, failed_at |-> 0]
        ELSE
        LET old_items == SaleItemsOf(d, sale_id)
            \* 1) return inventory for existing items
            s1 == _revert_inventory_for_items(d, old_items, current_user, "Sale deleted")
            \* 2) delete children
            s2 == [s1 EXCEPT !.sale_items = SelectSeq(@, LAMBDA it : it.sale_id # sale_id)]
            \* 3) delete parent
            s3 == [s2 EXCEPT !.sales = [i \in DOMAIN @ \ {sale_id} |-> @[i]]]
        IN  [status |-> 200, db |-> db_commit(d, s3), sale_id |-> sale_id, failed_at |-> 0]

----------------------------------------------------------------------------
(* State machine of the sale handlers: one request at a time *)

InitDb ==
    [products |-> InitProducts,
     sales |-> << >>,
     sale_items |-> << >>,
     inventory_logs |-> << >>,
     next_sale_id |-> 1,
     purchase_orders |-> << >>,
     purchase_order_items |-> << >>,
     next_po_id |-> 1]

NoReq == [payment_type |-> "", items |-> << >>]

NoOp == [op |-> "none", status |-> 0, user |-> 0, sale_id |-> 0, failed_at |-> 0,
         req |-> NoReq, before |-> << >>]

NoTxn == << >>

InitWith(w) ==
    /\ db = InitDb
    /\ last = NoOp
    /\ workload = w
    /\ txn = NoTxn

Init == InitWith("sales")

InitErr == InitWith("errors")

\* the ledger has room for n more entries
LedgerRoom(n) == Len(db.inventory_logs) + n <= MaxLedger

\* a handler has returned r: its db is the stored state; `last` tells what ran,
\* on which request, and the products table it started from
Finish(op, user, req, r) ==
    /\ db' = r.db
    /\ last' = [op |-> op, status |-> r.status, user |-> user, sale_id |-> r.sale_id,
                failed_at |-> r.failed_at, req |-> req, before |-> db.products]
    /\ UNCHANGED <<workload, txn>>

CreateSale ==
    \E u \in Callers, req \in SaleCreate :
        /\ db.next_sale_id <= MaxSales
        /\ LedgerRoom(Len(req.items))
        /\ \E r \in { create_sale(db, u, req) } : Finish("create_sale", u, req, r)

\* a request for a sale that _get_sale does not find is answered before its
\* body is read, so one body stands for all of them
AnySaleCreate == CHOOSE req \in SaleCreate : TRUE

UpdateSale ==
    \E u \in Callers, sid \in 1..MaxSales :
        \E req \in (IF IsSet(_get_sale(db, sid, u)) THEN SaleCreate ELSE {AnySaleCreate}) :
            /\ LedgerRoom(Len(SaleItemsOf(db, sid)) + Len(req.items))
            /\ \E r \in { update_sale(db, u, sid, req) } : Finish("update_sale", u, req, r)

DeleteSale ==
    \E u \in Callers, sid \in 1..MaxSales :
        /\ LedgerRoom(Len(SaleItemsOf(db, sid)))
        /\ \E r \in { delete_sale(db, u, sid) } : Finish("delete_sale", u, NoReq, r)

Next == CreateSale \/ UpdateSale \/ DeleteSale

\* request bodies as they arrive, before validation: no item, or one item
SaleBodies ==
    { [payment_type |-> "", items |-> its] : its \in SeqsUpTo(OwnedItemInputs, 1) }

\* variant: the item list may be empty
SaleCreateValid_NoMinItems(body) ==
    \A i \in 1..Len(body.items) :
        body.items[i].quantity > 0 /\ body.items[i].unit_price >= 0

\* the body passes the SaleCreate schema: at least one item, every quantity
\* > 0 and every unit_price >= 0
SaleCreateValid(body) ==
    /\ Len(body.items) >= 1
    /\ \A i \in 1..Len(body.items) :
          body.items[i].quantity > 0 /\ body.items[i].unit_price >= 0

\* POST /sales: the body is validated against SaleCreate, then create_sale
\* runs; a body that fails validation is answered 422 without calling it
PostSale ==
    \E u \in Callers, body \in SaleBodies :
        /\ db.next_sale_id <= MaxSales
        /\ LedgerRoom(Len(body.items))
        /\ \E r \in { IF SaleCreateValid(body) THEN create_sale(db, u, body)
                       ELSE [status |-> 422, db |-> db, sale_id |-> 0,
                             failed_at |-> 0] } :
              Finish("create_sale", u, body, r)

\* PUT /sales/{sale_id}: the body is validated against SaleCreate, then
\* update_sale runs
PutSale ==
    \E u \in Callers, sid \in 1..MaxSales, body \in SaleBodies :
        /\ LedgerRoom(Len(SaleItemsOf(db, sid)) + Len(body.items))
        /\ \E r \in { IF SaleCreateValid(body) THEN update_sale(db, u, sid, body)
                       ELSE [status |-> 422, db |-> db, sale_id |-> sid,
                             failed_at |-> 0] } :
              Finish("update_sale", u, body, r)

InitBodies == InitWith("bodies")

NextBodies == PostSale \/ PutSale \/ DeleteSale

SpecBodies == InitBodies /\ [][NextBodies]_vars

Spec == Init /\ [][Next]_vars

\* the same handlers under requests that name products the caller cannot sell
SpecErr == InitErr /\ [][Next]_vars

----------------------------------------------------------------------------
(* routes/purchase_order.py *)

\* POItemCreate values: quantity >= 0, unit_cost >= 0, both supplied by the caller
POItemInputs ==
    { [product_id |-> 1, quantity |-> 2, unit_cost |-> 5],
      [product_id |-> 3, quantity |-> 1, unit_cost |-> 5],
      [product_id |-> 4, quantity |-> 1, unit_cost |-> 5] }

\* PurchaseOrderCreate values
PurchaseOrderCreate ==
    { [shipping_cost |-> c[1], handling_cost |-> c[2], items |-> its] :
        c \in { <<0, 0>>, <<4, 3>> }, its \in SeqsUpTo(POItemInputs, MaxItems) }

\* purchase_order_items.product_id is a foreign key to products.id: the store
\* refuses the INSERT of a line whose product row does not exist
FKProductsOk(d, items) ==
    \A i \in 1..Len(items) : items[i].product_id \in DOMAIN d.products

\* PurchaseOrder.items
POItemsOf(d, po_id) == SelectSeq(d.purchase_order_items, LAMBDA it : it.order_id = po_id)

\* sum of quantity * unit_cost, in line order
RECURSIVE LinesTotal(_)
LinesTotal(items) ==
    IF items = << >> THEN 0
    ELSE Head(items).quantity * Head(items).unit_cost + LinesTotal(Tail(items))

\* PurchaseOrder.items_subtotal (models/purchase_order.py)
items_subtotal(d, po_id) == LinesTotal(POItemsOf(d, po_id))

\* PurchaseOrder.grand_total (models/purchase_order.py): subtotal + shipping only
grand_total(d, po_id) == items_subtotal(d, po_id) + d.purchase_orders[po_id].shipping_cost

\* the response body of list, get, create and update.  Money is counted in
\* cents, so round(x, 2) leaves it as it is.
_hydrate_po_out(d, po_id) ==
    LET po == d.purchase_orders[po_id]
        subtotal == LinesTotal(POItemsOf(d, po_id))
        grand == subtotal + po.shipping_cost + po.handling_cost
    IN  [id |-> po_id,
         shipping_cost |-> po.shipping_cost,
         handling_cost |-> po.handling_cost,
         items_subtotal |-> subtotal,
         grand_total |-> grand,
         items |-> POItemsOf(d, po_id)]

\* _ensure_owned after the owner-filtered query
_ensure_owned(d, po_id, user_id) ==
    IF po_id \in DOMAIN d.purchase_orders /\ d.purchase_orders[po_id].user_id = user_id
    THEN Some(po_id) ELSE None

create_purchase_order(d, current_user, payload) ==
    LET po_id == d.next_po_id
        \* db.add(po); db.flush(): the order row gets its id
        s0 == [d EXCEPT !.purchase_orders = @ @@ (po_id :>
                            [user_id |-> current_user,
                             shipping_cost |-> payload.shipping_cost,
                             handling_cost |-> payload.handling_cost]),
                        !.next_po_id = @ + 1]
        \* insert items
        s1 == [s0 EXCEPT !.purchase_order_items = @ \o
                  [k \in 1..Len(payload.items) |->
                      [order_id |-> po_id,
                       product_id |-> payload.items[k].product_id,
                       quantity |-> payload.items[k].quantity,
                       unit_cost |-> payload.items[k].unit_cost]]]
    IN  IF FKProductsOk(d, payload.items)
        THEN [status |-> 201, db |-> db_commit(d, s1), po_id |-> po_id,
              out |-> Some(_hydrate_po_out(s1, po_id))]
        ELSE \* IntegrityError at commit; the id taken by the flush is not given back
             [status |-> 500, db |-> [db_rollback(d, s1) EXCEPT !.next_po_id = @ + 1],
              po_id |-> 0, out |-> None]

\* sum of the quantities of the items that reference product p
RECURSIVE SumQty(_, _)
SumQty(items, p) ==
    IF items = <<>> THEN 0
    ELSE (IF Head(items).product_id = p THEN Head(items).quantity ELSE 0)
         + SumQty(Tail(items), p)

\* the new lines of order po_id
NewPOItems(po_id, items) ==
    [k \in 1..Len(items) |->
        [order_id |-> po_id,
         product_id |-> items[k].product_id,
         quantity |-> items[k].quantity,
         unit_cost |-> items[k].unit_cost]]

ReplacePOItems_Restock(d, po_id, items) ==
    [d EXCEPT !.purchase_order_items =
                  SelectSeq(@, LAMBDA it : it.order_id # po_id) \o NewPOItems(po_id, items),
              !.products = [p \in DOMAIN @ |->
                  [@[p] EXCEPT !.quantity_in_stock =
                      @ - SumQty(POItemsOf(d, po_id), p) + SumQty(items, p)]]]

\* replace items: delete by order_id, then add the new ones
ReplacePOItems(d, po_id, items) ==
    [d EXCEPT !.purchase_order_items =
                  SelectSeq(@, LAMBDA it : it.order_id # po_id) \o NewPOItems(po_id, items)]

update_purchase_order(d, current_user, po_id, payload) ==
    IF ~IsSet(_ensure_owned(d, po_id, current_user))
    THEN [status |-> 404, db |-> d, po_id |-> po_id, out |-> None]
    ELSE LET \* update simple fields
             s0 == [d EXCEPT !.purchase_orders[po_id].shipping_cost = payload.shipping_cost,
                             !.purchase_orders[po_id].handling_cost = payload.handling_cost]
             s2 == ReplacePOItems(s0, po_id, payload.items)
         IN  IF FKProductsOk(d, payload.items)
             THEN [status |-> 200, db |-> db_commit(d, s2), po_id |-> po_id,
                   out |-> Some(_hydrate_po_out(s2, po_id))]
             ELSE [status |-> 500, db |-> db_rollback(d, s2), po_id |-> po_id, out |-> None]

delete_purchase_order(d, current_user, po_id) ==
    IF ~IsSet(_ensure_owned(d, po_id, current_user))
    THEN [status |-> 404, db |-> d, po_id |-> po_id, out |-> None]
    ELSE LET s0 == [d EXCEPT !.purchase_order_items =
                       SelectSeq(@, LAMBDA it : it.order_id # po_id)]
             s1 == [s0 EXCEPT !.purchase_orders =
                       [k \in DOMAIN @ \ { po_id } |-> @[k]]]
         IN  [status |-> 204, db |-> db_commit(d, s1), po_id |-> po_id, out |-> None]

\* list_purchase_orders / get_purchase_order: the response of each owned order
get_purchase_order(d, current_user, po_id) ==
    IF ~IsSet(_ensure_owned(d, po_id, current_user))
    THEN [status |-> 404, db |-> d, po_id |-> po_id, out |-> None]
    ELSE [status |-> 200, db |-> d, po_id |-> po_id, out |-> Some(_hydrate_po_out(d, po_id))]

\* a purchase order handler has returned r
FinishPO(op, user, payload, r) ==
    /\ db' = r.db
    /\ last' = [op |-> op, status |-> r.status, user |-> user, sale_id |-> r.po_id,
                failed_at |-> 0, req |-> payload, before |-> << >>, out |-> r.out,
                old_items |-> IF r.po_id \in DOMAIN db.purchase_orders
                              THEN POItemsOf(db, r.po_id) ELSE << >>]
    /\ UNCHANGED <<workload, txn>>

CreatePurchaseOrder ==
    \E u \in Callers, payload \in PurchaseOrderCreate :
        /\ db.next_po_id <= MaxPOs
        /\ \E r \in { create_purchase_order(db, u, payload) } :
              FinishPO("create_purchase_order", u, payload, r)

NextPO == CreatePurchaseOrder

InitPO == InitWith("po")

SpecPO == InitPO /\ [][NextPO]_vars

\* PurchaseOrderUpdate values (same fields as PurchaseOrderCreate), lines of at
\* most two items
PurchaseOrderUpdate ==
    { [shipping_cost |-> c[1], handling_cost |-> c[2], items |-> its] :
        c \in { <<0, 0>>, <<4, 0>>, <<4, 3>> },
        its \in { << >> } \cup { <<a>> : a \in POItemInputs }
                 \cup { <<a, b>> : a, b \in POItemInputs } }

NoPayload == [shipping_cost |-> 0, handling_cost |-> 0, items |-> << >>]

\* ids that requests may name: the two stored orders and one id of no order
POIds == { 1, 2, 3 }

UpdatePurchaseOrder ==
    \E u \in Callers, po_id \in POIds :
        \E payload \in IF IsSet(_ensure_owned(db, po_id, u))
                        THEN PurchaseOrderUpdate ELSE { NoPayload } :
            \E r \in { update_purchase_order(db, u, po_id, payload) } :
                FinishPO("update_purchase_order", u, payload, r)

DeletePurchaseOrder ==
    \E u \in Callers, po_id \in POIds :
        \E r \in { delete_purchase_order(db, u, po_id) } :
            FinishPO("delete_purchase_order", u, NoPayload, r)

GetPurchaseOrder ==
    \E u \in Callers, po_id \in POIds :
        \E r \in { get_purchase_order(db, u, po_id) } :
            FinishPO("get_purchase_order", u, NoPayload, r)

\* the orders the edits start from, both made by create_purchase_order: order 1
\* of the caller and order 2 of another user
InitPOEditDb ==
    LET d1 == create_purchase_order(InitDb, 1,
                  [shipping_cost |-> 4, handling_cost |-> 3,
                   items |-> << [product_id |-> 1, quantity |-> 2, unit_cost |-> 5] >>]).db
    IN  create_purchase_order(d1, 2,
                  [shipping_cost |-> 0, handling_cost |-> 0,
                   items |-> << [product_id |-> 3, quantity |-> 1, unit_cost |-> 5] >>]).db

InitPOEdit ==
    /\ db = InitPOEditDb
    /\ last = NoOp
    /\ workload = "po_edit"
    /\ txn = NoTxn

NextPOEdit == UpdatePurchaseOrder \/ DeletePurchaseOrder \/ GetPurchaseOrder

SpecPOEdit == InitPOEdit /\ [][NextPOEdit]_vars

----------------------------------------------------------------------------
(* services/pricing.py.  Prices are the stored numbers; Decimal(x) of a       *)
(* stored number is that number.  The resolvers read a product, its category  *)
(* and the category's ancestors and tiers; they write nothing.                *)

CategoryIds == 1..MaxCats

\* Category.parent: the row parent_id names
parent(d, cat) == d.categories[cat].parent_id

\* Product.category: the row category_id names
category(d, product_id) == d.products[product_id].category_id

\* the `while cat:` loop of resolve_sale_price
RECURSIVE ClimbCategories(_, _)
ClimbCategories(d, cat) ==
    IF ~IsSet(cat) THEN None
    ELSE IF IsSet(d.categories[Val(cat)].default_sale_price)
         THEN d.categories[Val(cat)].default_sale_price
         ELSE ClimbCategories(d, parent(d, Val(cat)))

resolve_sale_price_NoClimb(d, product_id) ==
    IF IsSet(d.products[product_id].sale_price)
    THEN d.products[product_id].sale_price
    ELSE IF IsSet(category(d, product_id))
         THEN d.categories[Val(category(d, product_id))].default_sale_price
         ELSE None

resolve_sale_price(d, product_id) ==
    IF IsSet(d.products[product_id].sale_price)
    THEN d.products[product_id].sale_price
    ELSE ClimbCategories(d, category(d, product_id))

\* sorted(category.purchase_tiers or [], key=lambda t: t.threshold)
RECURSIVE _sorted_tiers(_)
_sorted_tiers(tiers) ==
    IF tiers = << >> THEN << >>
    ELSE LET m == CHOOSE i \in 1..Len(tiers) :
                    /\ \A j \in 1..Len(tiers) : tiers[i].threshold <= tiers[j].threshold
                    /\ \A j \in 1..(i - 1) : tiers[j].threshold # tiers[i].threshold
             rest == [k \in 1..(Len(tiers) - 1) |-> IF k < m THEN tiers[k] ELSE tiers[k + 1]]
         IN  <<tiers[m]>> \o _sorted_tiers(rest)

\* the scan of _tier_index_for_total_qty from 0-based position i with the
\* index found so far; it stops at the first tier the quantity does not reach
RECURSIVE TierScan(_, _, _, _)
TierScan(total_qty, tiers, i, idx) ==
    IF i >= Len(tiers) THEN idx
    ELSE IF total_qty >= tiers[i + 1].threshold
         THEN TierScan(total_qty, tiers, i + 1, i)
         ELSE idx

\* 0-based index of the active tier, -1 when no tier is reached
_tier_index_for_total_qty(total_qty, tiers) == TierScan(total_qty, tiers, 0, -1)

resolve_purchase_price_global_Unsorted(total_order_qty, cat, override_unit_cost) ==
    IF IsSet(override_unit_cost)
    THEN [ok |-> TRUE, price |-> Val(override_unit_cost)]
    ELSE LET tiers == cat.purchase_tiers
             tier_idx == _tier_index_for_total_qty(total_order_qty, tiers)
         IN  IF tier_idx >= 0
             THEN [ok |-> TRUE, price |-> tiers[tier_idx + 1].price]
             ELSE IF IsSet(cat.base_purchase_price)
                  THEN [ok |-> TRUE, price |-> Val(cat.base_purchase_price)]
                  ELSE [ok |-> FALSE, price |-> 0]

\* [ok |-> TRUE, price] or, for the ValueError, [ok |-> FALSE]
resolve_purchase_price_global(total_order_qty, cat, override_unit_cost) ==
    IF IsSet(override_unit_cost)
    THEN [ok |-> TRUE, price |-> Val(override_unit_cost)]
    ELSE LET tiers == _sorted_tiers(cat.purchase_tiers)
             tier_idx == _tier_index_for_total_qty(total_order_qty, tiers)
         IN  IF tier_idx >= 0
             THEN [ok |-> TRUE, price |-> tiers[tier_idx + 1].price]
             ELSE IF IsSet(cat.base_purchase_price)
                  THEN [ok |-> TRUE, price |-> Val(cat.base_purchase_price)]
                  ELSE [ok |-> FALSE, price |-> 0]

\* the loop `for tier in reversed(tiers)` of resolve_purchase_price from
\* position i downwards: the price of the first tier the quantity reaches
RECURSIVE ReversedScan(_, _, _)
ReversedScan(qty, tiers, i) ==
    IF i = 0 THEN None
    ELSE IF qty >= tiers[i].threshold THEN Some(tiers[i].price)
    ELSE ReversedScan(qty, tiers, i - 1)

\* variant: the tiers are scanned in stored order
resolve_purchase_price_Unsorted(qty, cat, product_override) ==
    IF IsSet(product_override)
    THEN [ok |-> TRUE, price |-> Val(product_override)]
    ELSE LET tiers == cat.purchase_tiers
             found == ReversedScan(qty, tiers, Len(tiers))
         IN  IF IsSet(found)
             THEN [ok |-> TRUE, price |-> Val(found)]
             ELSE IF IsSet(cat.base_purchase_price)
                  THEN [ok |-> TRUE, price |-> Val(cat.base_purchase_price)]
                  ELSE [ok |-> FALSE, price |-> 0]

\* the legacy resolver: the tier is chosen by the line's own quantity
resolve_purchase_price(qty, cat, product_override) ==
    IF IsSet(product_override)
    THEN [ok |-> TRUE, price |-> Val(product_override)]
    ELSE LET tiers == _sorted_tiers(cat.purchase_tiers)
             found == ReversedScan(qty, tiers, Len(tiers))
         IN  IF IsSet(found)
             THEN [ok |-> TRUE, price |-> Val(found)]
             ELSE IF IsSet(cat.base_purchase_price)
                  THEN [ok |-> TRUE, price |-> Val(cat.base_purchase_price)]
                  ELSE [ok |-> FALSE, price |-> 0]

\* optional prices; 0 is a price
OptSalePrices == { None, Some(0), Some(20), Some(25) }

OptProductPrices == { None, Some(0), Some(30) }

\* a category's parent is an earlier category of the same user or none:
\* create_category links a new row to an existing one, update_category never
\* changes parent_id
ParentChoices ==
    { f \in [CategoryIds -> { None } \cup { Some(c) : c \in CategoryIds }] :
        \A c \in CategoryIds : IsSet(f[c]) => Val(f[c]) < c }

InitSalePrice ==
    /\ \E par \in ParentChoices, dsp \in [CategoryIds -> OptSalePrices],
          pc \in { None } \cup { Some(c) : c \in CategoryIds }, sp \in OptProductPrices :
          db = [categories |-> [c \in CategoryIds |->
                                  [user_id |-> 1, parent_id |-> par[c],
                                   default_sale_price |-> dsp[c],
                                   base_purchase_price |-> None,
                                   purchase_tiers |-> << >>]],
                products |-> (1 :> [user_id |-> 1, quantity_in_stock |-> 5,
                                    category_id |-> pc, sale_price |-> sp])]
    /\ last = NoOp
    /\ workload = "sale_price"
    /\ txn = NoTxn

ResolveSalePrice ==
    \E product_id \in DOMAIN db.products :
        /\ last' = [op |-> "resolve_sale_price", product_id |-> product_id,
                    result |-> resolve_sale_price(db, product_id)]
        /\ UNCHANGED <<db, workload, txn>>

NextSalePrice == ResolveSalePrice

SpecSalePrice == InitSalePrice /\ [][NextSalePrice]_vars

\* purchase_tiers rows: threshold >= 0, price >= 0, thresholds unique within a
\* category (uq_category_threshold)
TierThresholds == { 1, 50, 100 }

TierPrices == { 0, 8, 9 }

PurchaseTiers == [threshold : TierThresholds, price : TierPrices]

TierLists ==
    { ts \in SeqsUpTo(PurchaseTiers, MaxTiers) \cup { << >> } :
        \A i, j \in 1..Len(ts) : i # j => ts[i].threshold # ts[j].threshold }

OptBasePrices == { None, Some(0), Some(10) }

OptOverrides == { None, Some(0), Some(7) }

OrderQuantities == { 0, 1, 40, 50, 60, 100, 120 }

InitPurchasePrice ==
    /\ \E bpp \in OptBasePrices, ts \in TierLists :
          db = [categories |-> (1 :> [user_id |-> 1, parent_id |-> None,
                                      default_sale_price |-> None,
                                      base_purchase_price |-> bpp,
                                      purchase_tiers |-> ts]),
                products |-> << >>]
    /\ last = NoOp
    /\ workload = "purchase_price"
    /\ txn = NoTxn

ResolvePurchasePrice ==
    \E cat \in DOMAIN db.categories, total_order_qty \in OrderQuantities,
       override_unit_cost \in OptOverrides :
        /\ last' = [op |-> "resolve_purchase_price_global", category_id |-> cat,
                    total_order_qty |-> total_order_qty,
                    override_unit_cost |-> override_unit_cost,
                    result |-> resolve_purchase_price_global(total_order_qty,
                                   db.categories[cat], override_unit_cost)]
        /\ UNCHANGED <<db, workload, txn>>

NextPurchasePrice == ResolvePurchasePrice

SpecPurchasePrice == InitPurchasePrice /\ [][NextPurchasePrice]_vars

\* one purchase-order line priced by both resolvers: the legacy one at the
\* line's quantity, the order-wide one at the line's quantity and at the
\* order's total quantity
InitLinePrice ==
    /\ \E bpp \in OptBasePrices, ts \in TierLists :
          db = [categories |-> (1 :> [user_id |-> 1, parent_id |-> None,
                                      default_sale_price |-> None,
                                      base_purchase_price |-> bpp,
                                      purchase_tiers |-> ts]),
                products |-> << >>]
    /\ last = NoOp
    /\ workload = "line_price"
    /\ txn = NoTxn

ResolveLinePrice ==
    \E cat \in DOMAIN db.categories, qty \in OrderQuantities,
       total_order_qty \in OrderQuantities, override \in OptOverrides :
        /\ qty <= total_order_qty
        /\ last' = [op |-> "resolve_purchase_price", category_id |-> cat,
                    qty |-> qty, total_order_qty |-> total_order_qty,
                    override |-> override,
                    per_line |-> resolve_purchase_price(qty, db.categories[cat], override),
                    same_qty |-> resolve_purchase_price_global(qty, db.categories[cat],
                                                               override),
                    order_wide |-> resolve_purchase_price_global(total_order_qty,
                                       db.categories[cat], override)]
        /\ UNCHANGED <<db, workload, txn>>

NextLinePrice == ResolveLinePrice

SpecLinePrice == InitLinePrice /\ [][NextLinePrice]_vars

----------------------------------------------------------------------------
(* routes/category.py and routes/product.py: the catalog.  Products carry     *)
(* category_id, sale_price and unit_cost; categories carry their tiers,       *)
(* stored in ascending threshold order.                                       *)

\* _ensure_unique_thresholds: TRUE when it raises
DuplicateThreshold(tiers) ==
    \E i, j \in 1..Len(tiers) : i # j /\ tiers[i].threshold = tiers[j].threshold

\* variant: the new rows are added to the old ones
_replace_purchase_tiers_Merge(d, cat_id, tiers) ==
    [d EXCEPT !.categories[cat_id].purchase_tiers = _sorted_tiers(@ \o tiers)]

\* _replace_purchase_tiers: the old rows are deleted, the new ones are added in
\* ascending threshold order
_replace_purchase_tiers(d, cat_id, tiers) ==
    [d EXCEPT !.categories[cat_id].purchase_tiers = _sorted_tiers(tiers)]

\* one bulk UPDATE of _cascade_prices on the products in the category: with
\* force all of them, else those whose field is NULL
CascadeField_RestampLines(d, cat_id, field, new_value, force) ==
    [d EXCEPT !.products =
        [p \in DOMAIN @ |->
            IF @[p].category_id = Some(cat_id) /\ (force \/ ~IsSet(@[p][field]))
            THEN [@[p] EXCEPT ![field] = Some(new_value)]
            ELSE @[p]],
              !.purchase_order_items =
        [k \in 1..Len(@) |->
            IF field = "unit_cost" /\ @[k].product_id \in DOMAIN d.products
               /\ d.products[@[k].product_id].category_id = Some(cat_id)
            THEN [@[k] EXCEPT !.unit_cost = new_value]
            ELSE @[k]]]

CascadeField_Overwrite(d, cat_id, field, new_value, force) ==
    [d EXCEPT !.products =
        [p \in DOMAIN @ |->
            IF @[p].category_id = Some(cat_id)
            THEN [@[p] EXCEPT ![field] = Some(new_value)]
            ELSE @[p]]]

CascadeField(d, cat_id, field, new_value, force) ==
    [d EXCEPT !.products =
        [p \in DOMAIN @ |->
            IF @[p].category_id = Some(cat_id) /\ (force \/ ~IsSet(@[p][field]))
            THEN [@[p] EXCEPT ![field] = Some(new_value)]
            ELSE @[p]]]

\* update_sale_price and update_purchase_cost are the source's update_sale and
\* update_purchase
_cascade_prices(d, cat_id, update_sale_price, update_purchase_cost, new_sale, new_purchase, force) ==
    LET s1 == IF update_sale_price /\ IsSet(new_sale)
              THEN CascadeField(d, cat_id, "sale_price", Val(new_sale), force)
              ELSE d
    IN  IF update_purchase_cost /\ IsSet(new_purchase)
        THEN CascadeField(s1, cat_id, "unit_cost", Val(new_purchase), force)
        ELSE s1

\* uq_categories_user_name: a category of the user outside `but` has the name
NameTaken(d, user_id, name, but) ==
    \E c \in DOMAIN d.categories \ but :
        d.categories[c].user_id = user_id /\ d.categories[c].name = name

\* variant: the owner is not compared
_get_category_AnyOwner(d, cat_id, user_id) ==
    IF cat_id \in DOMAIN d.categories THEN Some(cat_id) ELSE None

\* the category row with this id owned by user_id, else None
_get_category(d, cat_id, user_id) ==
    IF cat_id \in DOMAIN d.categories /\ d.categories[cat_id].user_id = user_id
    THEN Some(cat_id)
    ELSE None

\* variant: a supplied price cascades whether or not it differs
ShouldCascade_IgnoreOld(flag, new_value, old_value) ==
    flag /\ IsSet(new_value)

\* the condition of update_category for one price: a flag is set, the price is
\* supplied and it differs from the old one
ShouldCascade(flag, new_value, old_value) ==
    /\ flag
    /\ IsSet(new_value)
    /\ new_value # old_value

create_category(d, current_user, payload) ==
    IF NameTaken(d, current_user, payload.name, {})
    THEN [status |-> 400, db |-> d]
    ELSE IF \* getattr(payload, "parent_id", None) is truthy
            /\ IsSet(payload.parent_id)
            /\ Val(payload.parent_id) # 0
            /\ ~IsSet(_get_category(d, Val(payload.parent_id), current_user))
    THEN [status |-> 400, db |-> d]
    ELSE IF DuplicateThreshold(payload.purchase_tiers)
    THEN [status |-> 400, db |-> d]
    ELSE LET id == d.next_category_id
             cat == [user_id |-> current_user,
                     name |-> payload.name,
                     description |-> payload.description,
                     parent_id |-> IF IsSet(payload.parent_id) /\ Val(payload.parent_id) # 0
                                  THEN payload.parent_id ELSE None,
                     default_sale_price |-> payload.default_sale_price,
                     base_purchase_price |-> payload.base_purchase_price,
                     \* _apply_purchase_tiers adds them in ascending threshold order
                     purchase_tiers |-> _sorted_tiers(payload.purchase_tiers)]
             \* db.flush() has taken the id from the sequence
             flushed == [d EXCEPT !.next_category_id = id + 1]
             s1 == [flushed EXCEPT !.categories = (id :> cat) @@ @]
         IN  IF \E i \in 1..Len(cat.purchase_tiers) : cat.purchase_tiers[i].price < 0
             THEN \* IntegrityError at commit: ck_price_nonnegative
                  [status |-> 500, db |-> db_rollback(flushed, s1)]
             ELSE [status |-> 200, db |-> db_commit(d, s1)]

update_category(d, current_user, cat_id, payload) ==
    IF ~IsSet(_get_category(d, cat_id, current_user))
    THEN [status |-> 404, db |-> d]
    ELSE LET cat == d.categories[cat_id]
             \* track old values
             old_sale == cat.default_sale_price
             old_purchase == cat.base_purchase_price
             \* update fields
             s1 == [d EXCEPT !.categories[cat_id].name =
                                 IF IsSet(payload.name) THEN Val(payload.name) ELSE @,
                             !.categories[cat_id].description =
                                 IF IsSet(payload.description)
                                 THEN payload.description ELSE @,
                             !.categories[cat_id].default_sale_price =
                                 IF IsSet(payload.default_sale_price)
                                 THEN payload.default_sale_price ELSE @,
                             !.categories[cat_id].base_purchase_price =
                                 IF IsSet(payload.base_purchase_price)
                                 THEN payload.base_purchase_price ELSE @]
             \* purchase tiers (replace-all semantics)
             s2 == IF IsSet(payload.purchase_tiers)
                   THEN _replace_purchase_tiers(s1, cat_id, Val(payload.purchase_tiers))
                   ELSE s1
             \* cascade
             force == payload.propagate_prices
             update_sale_price ==
                 ShouldCascade(force \/ payload.propagate_sale_price,
                               payload.default_sale_price, old_sale)
             update_purchase_cost ==
                 ShouldCascade(force \/ payload.propagate_purchase_cost,
                               payload.base_purchase_price, old_purchase)
             s3 == IF update_sale_price \/ update_purchase_cost
                   THEN _cascade_prices(s2, cat_id, update_sale_price, update_purchase_cost,
                                        payload.default_sale_price,
                                        payload.base_purchase_price, force)
                   ELSE s2
         IN  IF IsSet(payload.purchase_tiers) /\ DuplicateThreshold(Val(payload.purchase_tiers))
             THEN \* HTTPException before any commit: the session is closed unsaved
                  [status |-> 400, db |-> db_rollback(d, s1)]
             ELSE IF \/ NameTaken(s1, current_user, s1.categories[cat_id].name, { cat_id })
                     \/ ( IsSet(payload.purchase_tiers)
                          /\ \E i \in 1..Len(Val(payload.purchase_tiers)) :
                                Val(payload.purchase_tiers)[i].price < 0 )
             THEN \* IntegrityError at flush or commit: uq_categories_user_name,
                  \* ck_price_nonnegative
                  [status |-> 500, db |-> db_rollback(d, s3)]
             ELSE [status |-> 200, db |-> db_commit(d, s3)]

\* the categories below cat_id (Category.children, transitively)
RECURSIVE Descendants(_, _)
Descendants(d, cat_id) ==
    LET kids == { c \in DOMAIN d.categories : d.categories[c].parent_id = Some(cat_id) }
    IN  kids \cup UNION { Descendants(d, c) : c \in kids }

\* Category.products
ProductsIn(d, cat_id) ==
    { p \in DOMAIN d.products : d.products[p].category_id = Some(cat_id) }

delete_category_NoCheck(d, current_user, cat_id) ==
    IF ~IsSet(_get_category(d, cat_id, current_user))
    THEN [status |-> 404, db |-> d]
    ELSE LET gone == { cat_id } \cup Descendants(d, cat_id)
             s1 == [d EXCEPT !.categories = [c \in DOMAIN @ \ gone |-> @[c]],
                             !.products =
                                 [p \in DOMAIN @ |->
                                     IF IsSet(@[p].category_id) /\ Val(@[p].category_id) \in gone
                                     THEN [@[p] EXCEPT !.category_id = None]
                                     ELSE @[p]]]
         IN  [status |-> 200, db |-> db_commit(d, s1)]

\* db.delete(cat) also deletes the children (cascade="all, delete-orphan") and
\* the tiers of all of them; products of a deleted child lose their category
delete_category(d, current_user, cat_id) ==
    IF ~IsSet(_get_category(d, cat_id, current_user))
    THEN [status |-> 404, db |-> d]
    ELSE IF ProductsIn(d, cat_id) # {}
    THEN [status |-> 400, db |-> d]
    ELSE LET gone == { cat_id } \cup Descendants(d, cat_id)
             s1 == [d EXCEPT !.categories = [c \in DOMAIN @ \ gone |-> @[c]],
                             !.products =
                                 [p \in DOMAIN @ |->
                                     IF IsSet(@[p].category_id) /\ Val(@[p].category_id) \in gone
                                     THEN [@[p] EXCEPT !.category_id = None]
                                     ELSE @[p]]]
         IN  [status |-> 200, db |-> db_commit(d, s1)]

\* _safe_qty: max(0, int(n or 0))
_safe_qty(n) == IF n < 0 THEN 0 ELSE n

update_product(d, current_user, product_id, payload) ==
    IF ~IsSet(_get_product(d, product_id, current_user))
    THEN [status |-> 404, db |-> d]
    ELSE IF /\ IsSet(payload.category_id)
            /\ ~IsSet(_get_category(d, Val(payload.category_id), current_user))
    THEN [status |-> 400, db |-> d]
    ELSE LET p == d.products[product_id]
             category_id == IF IsSet(payload.category_id) THEN payload.category_id
                            ELSE p.category_id
             qty == IF IsSet(payload.quantity_in_stock)
                    THEN _safe_qty(Val(payload.quantity_in_stock))
                    ELSE p.quantity_in_stock
             unit_cost == IF payload.use_category_purchase_cost THEN None
                          ELSE IF IsSet(payload.unit_cost) THEN payload.unit_cost
                          ELSE p.unit_cost
             sale_price == IF payload.use_category_sale_price THEN None
                           ELSE IF IsSet(payload.sale_price) THEN payload.sale_price
                           ELSE p.sale_price
             s1 == [d EXCEPT !.products[product_id] =
                       [@ EXCEPT !.category_id = category_id,
                                 !.unit_cost = unit_cost,
                                 !.sale_price = sale_price,
                                 \* last guard before returning
                                 !.quantity_in_stock = _safe_qty(qty)]]
         IN  [status |-> 200, db |-> db_commit(d, s1)]

\* get_product: the loaded object gets the clamped quantity and is returned;
\* nothing is committed
get_product(d, current_user, product_id) ==
    IF ~IsSet(_get_product(d, product_id, current_user))
    THEN [status |-> 404, db |-> d, out |-> None]
    ELSE LET s1 == [d EXCEPT !.products[product_id].quantity_in_stock = _safe_qty(@)]
         IN  [status |-> 200, db |-> db_rollback(d, s1),
              out |-> Some(s1.products[product_id].quantity_in_stock)]

\* list_products: the same for every product of the caller
list_products(d, current_user) ==
    LET mine == { p \in DOMAIN d.products : d.products[p].user_id = current_user }
        s1 == [d EXCEPT !.products =
                  [p \in DOMAIN @ |->
                      IF p \in mine
                      THEN [@[p] EXCEPT !.quantity_in_stock = _safe_qty(@)]
                      ELSE @[p]]]
    IN  [status |-> 200, db |-> db_rollback(d, s1),
         out |-> [p \in mine |-> s1.products[p].quantity_in_stock]]

\* rows whose product_id foreign key names the product
ReferencesProduct(d, product_id) ==
    \/ \E i \in 1..Len(d.inventory_logs) : d.inventory_logs[i].product_id = product_id
    \/ \E i \in 1..Len(d.sale_items) : d.sale_items[i].product_id = product_id
    \/ \E i \in 1..Len(d.purchase_order_items) :
          d.purchase_order_items[i].product_id = product_id

\* variant: no foreign key protects the rows that reference the product
delete_product_NoForeignKey(d, current_user, product_id) ==
    IF ~IsSet(_get_product(d, product_id, current_user))
    THEN [status |-> 404, db |-> d]
    ELSE [status |-> 200,
          db |-> db_commit(d, [d EXCEPT !.products =
                                  [q \in DOMAIN @ \ { product_id } |-> @[q]]])]

\* variant: the rows that reference the product are deleted with it
delete_product_CascadeLedger(d, current_user, product_id) ==
    IF ~IsSet(_get_product(d, product_id, current_user))
    THEN [status |-> 404, db |-> d]
    ELSE [status |-> 200,
          db |-> db_commit(d,
                    [d EXCEPT !.products = [q \in DOMAIN @ \ { product_id } |-> @[q]],
                              !.inventory_logs =
                                  SelectSeq(@, LAMBDA e : e.product_id # product_id),
                              !.sale_items =
                                  SelectSeq(@, LAMBDA e : e.product_id # product_id),
                              !.purchase_order_items =
                                  SelectSeq(@, LAMBDA e : e.product_id # product_id)])]

delete_product(d, current_user, product_id) ==
    IF ~IsSet(_get_product(d, product_id, current_user))
    THEN [status |-> 404, db |-> d]
    ELSE IF ReferencesProduct(d, product_id)
    THEN \* IntegrityError at commit: a ledger, sale or order line still names it
         [status |-> 500, db |-> d]
    ELSE [status |-> 200,
          db |-> db_commit(d, [d EXCEPT !.products =
                                  [q \in DOMAIN @ \ { product_id } |-> @[q]]])]

CatalogCategories ==
    (1 :> [user_id |-> 1, name |-> "a", description |-> None,
           parent_id |-> None, default_sale_price |-> Some(20),
           base_purchase_price |-> Some(10),
           purchase_tiers |-> << [threshold |-> 50, price |-> 9] >>]) @@
    (2 :> [user_id |-> 1, name |-> "b", description |-> None,
           parent_id |-> Some(1), default_sale_price |-> None,
           base_purchase_price |-> None, purchase_tiers |-> << >>]) @@
    (3 :> [user_id |-> 2, name |-> "a", description |-> None,
           parent_id |-> None, default_sale_price |-> Some(20),
           base_purchase_price |-> None, purchase_tiers |-> << >>]) @@
    (4 :> [user_id |-> 1, name |-> "c", description |-> None,
           parent_id |-> None, default_sale_price |-> None,
           base_purchase_price |-> None,
           purchase_tiers |-> << [threshold |-> 1, price |-> 8] >>])

\* products 1 and 2 are in category 1 (1 inherits both prices, 2 overrides
\* both), 3 is another user's, 4 is in the child category 2
CatalogProducts ==
    (1 :> [user_id |-> 1, quantity_in_stock |-> 5, category_id |-> Some(1),
           sale_price |-> None, unit_cost |-> None]) @@
    (2 :> [user_id |-> 1, quantity_in_stock |-> 0, category_id |-> Some(1),
           sale_price |-> Some(30), unit_cost |-> Some(6)]) @@
    (3 :> [user_id |-> 2, quantity_in_stock |-> 2, category_id |-> Some(3),
           sale_price |-> None, unit_cost |-> None]) @@
    (4 :> [user_id |-> 1, quantity_in_stock |-> 1, category_id |-> Some(2),
           sale_price |-> None, unit_cost |-> None])

CatalogInitDb ==
    [products |-> CatalogProducts,
     categories |-> CatalogCategories,
     sales |-> << >>,
     sale_items |-> << >>,
     inventory_logs |-> << >>,
     next_sale_id |-> 1,
     purchase_orders |-> << >>,
     purchase_order_items |-> << >>,
     next_po_id |-> 1]

\* CategoryUpdate values: every combination of new prices and cascade flags,
\* and tier replacements (stored order reversed; a duplicated threshold)
CategoryUpdatePrices ==
    [name : { None },
     description : { None },
     default_sale_price : { None, Some(25) },
     base_purchase_price : { None, Some(8) },
     purchase_tiers : { None },
     propagate_prices : BOOLEAN,
     propagate_sale_price : BOOLEAN,
     propagate_purchase_cost : BOOLEAN]

CategoryUpdateTiers ==
    [name : { None },
     description : { None },
     default_sale_price : { None, Some(25) },
     base_purchase_price : { None },
     purchase_tiers : { Some(<< [threshold |-> 100, price |-> 8],
                                [threshold |-> 50, price |-> 9] >>),
                        Some(<< [threshold |-> 50, price |-> 9],
                                [threshold |-> 50, price |-> 8] >>) },
     propagate_prices : BOOLEAN,
     propagate_sale_price : { FALSE },
     propagate_purchase_cost : { FALSE }]

CategoryUpdate == CategoryUpdatePrices \cup CategoryUpdateTiers

NoCategoryUpdate ==
    [name |-> None, description |-> None, default_sale_price |-> None, base_purchase_price |-> None, purchase_tiers |-> None,
     propagate_prices |-> FALSE, propagate_sale_price |-> FALSE,
     propagate_purchase_cost |-> FALSE]

NoProductUpdate ==
    [category_id |-> None, quantity_in_stock |-> None,
     use_category_purchase_cost |-> FALSE, use_category_sale_price |-> FALSE,
     unit_cost |-> None, sale_price |-> None]

\* ProductUpdate values that change prices or the category
ProductUpdatePrices ==
    { NoProductUpdate,
      [NoProductUpdate EXCEPT !.sale_price = Some(30)],
      [NoProductUpdate EXCEPT !.use_category_sale_price = TRUE],
      [NoProductUpdate EXCEPT !.use_category_purchase_cost = TRUE],
      [NoProductUpdate EXCEPT !.category_id = Some(3)] }

\* ProductUpdate values that set the stock
ProductUpdateStock ==
    { NoProductUpdate,
      [NoProductUpdate EXCEPT !.quantity_in_stock = Some(7)],
      [NoProductUpdate EXCEPT !.quantity_in_stock = Some(-2)] }

ProductUpdate == IF workload = "catalog" THEN ProductUpdatePrices ELSE ProductUpdateStock

\* the purchase orders created in the catalog
CatalogPOCreate ==
    { [shipping_cost |-> 4, handling_cost |-> 3,
       items |-> << [product_id |-> 1, quantity |-> 2, unit_cost |-> 5] >>],
      [shipping_cost |-> 0, handling_cost |-> 0,
       items |-> << [product_id |-> 4, quantity |-> 1, unit_cost |-> 10] >>] }

\* a catalog handler has returned r
FinishCatalog(op, user, id, payload, r) ==
    /\ db' = r.db
    /\ last' = [op |-> op, status |-> r.status, user |-> user, sale_id |-> id,
                failed_at |-> 0, req |-> payload, before |-> << >>]
    /\ UNCHANGED <<workload, txn>>

UpdateCategory ==
    \E u \in Callers, cat_id \in { 1, 3 } :
        \E payload \in IF IsSet(_get_category(db, cat_id, u))
                        THEN CategoryUpdate ELSE { NoCategoryUpdate } :
            \E r \in { update_category(db, u, cat_id, payload) } :
                FinishCatalog("update_category", u, cat_id, payload, r)

DeleteCategory ==
    \E u \in Callers, cat_id \in { 1, 3, 4 } :
        \E r \in { delete_category(db, u, cat_id) } :
            FinishCatalog("delete_category", u, cat_id, NoCategoryUpdate, r)

UpdateProduct ==
    \E u \in Callers, product_id \in { 1, 3 } :
        \E payload \in IF IsSet(_get_product(db, product_id, u))
                        THEN ProductUpdate ELSE { NoProductUpdate } :
            \E r \in { update_product(db, u, product_id, payload) } :
                FinishCatalog("update_product", u, product_id, payload, r)

DeleteProduct ==
    \E u \in Callers, product_id \in { 3, 4 } :
        \E r \in { delete_product(db, u, product_id) } :
            FinishCatalog("delete_product", u, product_id, NoProductUpdate, r)

CatalogCreatePurchaseOrder ==
    \E u \in Callers, payload \in CatalogPOCreate :
        /\ db.next_po_id <= MaxCatalogPOs
        /\ \E r \in { create_purchase_order(db, u, payload) } :
              FinishPO("create_purchase_order", u, payload, r)

InitCatalog ==
    /\ db = CatalogInitDb
    /\ last = NoOp
    /\ workload = "catalog"
    /\ txn = NoTxn

NextCatalog ==
    \/ UpdateCategory
    \/ DeleteCategory
    \/ UpdateProduct
    \/ DeleteProduct
    \/ CatalogCreatePurchaseOrder

SpecCatalog == InitCatalog /\ [][NextCatalog]_vars

\* a category tree of user 1 and one category of user 2: category 1 holds
\* products 1 (inherits) and 2 (overrides), its child 2 holds product 3,
\* category 3 holds no product and its child 4 holds product 4
TreeInitDb ==
    [categories |->
    (1 :> [user_id |-> 1, name |-> "a", description |-> None,
           parent_id |-> None, default_sale_price |-> Some(20),
           base_purchase_price |-> Some(10),
           purchase_tiers |-> << [threshold |-> 50, price |-> 9] >>]) @@
    (2 :> [user_id |-> 1, name |-> "b", description |-> None,
           parent_id |-> Some(1), default_sale_price |-> None,
           base_purchase_price |-> None, purchase_tiers |-> << >>]) @@
    (3 :> [user_id |-> 1, name |-> "c", description |-> None,
           parent_id |-> None, default_sale_price |-> None,
           base_purchase_price |-> None, purchase_tiers |-> << >>]) @@
    (4 :> [user_id |-> 1, name |-> "d", description |-> None,
           parent_id |-> Some(3), default_sale_price |-> None,
           base_purchase_price |-> None, purchase_tiers |-> << >>]) @@
    (5 :> [user_id |-> 2, name |-> "a", description |-> None,
           parent_id |-> None, default_sale_price |-> Some(20),
           base_purchase_price |-> None, purchase_tiers |-> << >>]),
     products |->
    (1 :> [user_id |-> 1, quantity_in_stock |-> 5, category_id |-> Some(1),
           sale_price |-> None, unit_cost |-> None]) @@
    (2 :> [user_id |-> 1, quantity_in_stock |-> 0, category_id |-> Some(1),
           sale_price |-> Some(30), unit_cost |-> Some(6)]) @@
    (3 :> [user_id |-> 1, quantity_in_stock |-> 1, category_id |-> Some(2),
           sale_price |-> None, unit_cost |-> None]) @@
    (4 :> [user_id |-> 1, quantity_in_stock |-> 1, category_id |-> Some(4),
           sale_price |-> None, unit_cost |-> None]),
     next_category_id |-> 6]

NoCategoryCreate ==
    [name |-> "e", description |-> None, default_sale_price |-> None,
     base_purchase_price |-> None, parent_id |-> None, purchase_tiers |-> << >>]

\* CategoryCreate values: a new and a used name, a parent of the caller, of
\* another user, 0 and unknown, tiers out of order, with a duplicated
\* threshold and with a negative price
CategoryCreate ==
    { NoCategoryCreate,
      [NoCategoryCreate EXCEPT !.name = "a"],
      [NoCategoryCreate EXCEPT !.parent_id = Some(2)],
      [NoCategoryCreate EXCEPT !.parent_id = Some(5)],
      [NoCategoryCreate EXCEPT !.parent_id = Some(0)],
      [NoCategoryCreate EXCEPT !.name = "f", !.parent_id = Some(6)],
      [NoCategoryCreate EXCEPT !.purchase_tiers = << [threshold |-> 100, price |-> 8],
                                                    [threshold |-> 50, price |-> 9] >>],
      [NoCategoryCreate EXCEPT !.default_sale_price = Some(25),
                               !.purchase_tiers = << [threshold |-> 50, price |-> 9],
                                                    [threshold |-> 50, price |-> 8] >>],
      [NoCategoryCreate EXCEPT !.purchase_tiers = << [threshold |-> 50, price |-> -1] >>] }

\* CategoryUpdate values: the current prices with the force flag, new prices
\* with and without flags, a used name, and tier replacements (valid, empty,
\* with a duplicated threshold next to field changes, with a negative price)
CategoryUpdateTree ==
    { [NoCategoryUpdate EXCEPT !.default_sale_price = Some(20), !.propagate_prices = TRUE],
      [NoCategoryUpdate EXCEPT !.base_purchase_price = Some(10), !.propagate_prices = TRUE],
      [NoCategoryUpdate EXCEPT !.default_sale_price = Some(20),
                               !.base_purchase_price = Some(8), !.propagate_prices = TRUE],
      [NoCategoryUpdate EXCEPT !.default_sale_price = Some(25), !.propagate_sale_price = TRUE],
      [NoCategoryUpdate EXCEPT !.default_sale_price = Some(25), !.propagate_prices = TRUE],
      [NoCategoryUpdate EXCEPT !.default_sale_price = Some(30)],
      [NoCategoryUpdate EXCEPT !.name = Some("c")],
      [NoCategoryUpdate EXCEPT !.purchase_tiers = Some(<< [threshold |-> 100, price |-> 8],
                                                          [threshold |-> 60, price |-> 7] >>)],
      [NoCategoryUpdate EXCEPT !.purchase_tiers = Some(<< >>)],
      [NoCategoryUpdate EXCEPT !.name = Some("z"), !.description = Some("y"),
                               !.default_sale_price = Some(25),
                               !.base_purchase_price = Some(8),
                               !.propagate_prices = TRUE,
                               !.purchase_tiers = Some(<< [threshold |-> 50, price |-> 9],
                                                          [threshold |-> 50, price |-> 8] >>)],
      [NoCategoryUpdate EXCEPT !.purchase_tiers = Some(<< [threshold |-> 50, price |-> -1] >>)] }

InitTree ==
    /\ db = TreeInitDb
    /\ last = NoOp
    /\ workload = "tree"
    /\ txn = NoTxn

TreeCreateCategory ==
    \E u \in Callers, payload \in CategoryCreate :
        /\ db.next_category_id < TreeInitDb.next_category_id + MaxNewCats
        /\ \E r \in { create_category(db, u, payload) } :
              FinishCatalog("create_category", u, db.next_category_id, payload, r)

TreeUpdateCategory ==
    \E u \in Callers, cat_id \in { 1, 5 } :
        \E payload \in IF IsSet(_get_category(db, cat_id, u))
                        THEN CategoryUpdateTree ELSE { NoCategoryUpdate } :
            \E r \in { update_category(db, u, cat_id, payload) } :
                FinishCatalog("update_category", u, cat_id, payload, r)

TreeDeleteCategory ==
    \E u \in Callers, cat_id \in { 1, 3, 4, 5, 6 } :
        \E r \in { delete_category(db, u, cat_id) } :
            FinishCatalog("delete_category", u, cat_id, NoCategoryUpdate, r)

NextTree == TreeCreateCategory \/ TreeUpdateCategory \/ TreeDeleteCategory

SpecTree == InitTree /\ [][NextTree]_vars

\* every operation that writes (sales, products, categories, purchase orders)
\* on one database; `last` keeps the operation and its status only
InitLedger ==
    /\ db = CatalogInitDb
    /\ last = NoOp
    /\ workload = "ledger"
    /\ txn = NoTxn

FinishLedger(op, r) ==
    /\ db' = r.db
    /\ last' = [NoOp EXCEPT !.op = op, !.status = r.status]
    /\ UNCHANGED <<workload, txn>>

LedgerCreateSale ==
    \E u \in Callers, req \in SaleCreateLedger :
        /\ db.next_sale_id <= MaxSales
        /\ LedgerRoom(Len(req.items))
        /\ \E r \in { create_sale(db, u, req) } : FinishLedger("create_sale", r)

\* the sale and the request are kept in `last`
LedgerUpdateSale ==
    \E u \in Callers, sid \in 1..MaxSales, req \in SaleCreateLedger :
        /\ IsSet(_get_sale(db, sid, u))
        /\ LedgerRoom(Len(SaleItemsOf(db, sid)) + Len(req.items))
        /\ \E r \in { update_sale(db, u, sid, req) } :
              /\ db' = r.db
              /\ last' = [NoOp EXCEPT !.op = "update_sale", !.status = r.status,
                                      !.sale_id = sid, !.req = req]
              /\ UNCHANGED <<workload, txn>>

\* the sale is kept in `last`
LedgerDeleteSale ==
    \E u \in Callers, sid \in 1..MaxSales :
        /\ LedgerRoom(Len(SaleItemsOf(db, sid)))
        /\ \E r \in { delete_sale(db, u, sid) } :
              /\ db' = r.db
              /\ last' = [NoOp EXCEPT !.op = "delete_sale", !.status = r.status,
                                      !.sale_id = sid, !.req = NoReq]
              /\ UNCHANGED <<workload, txn>>

\* the payload of an update_product is kept in `last`
LedgerUpdateProduct ==
    \E u \in Callers, payload \in ProductUpdateStock :
        \E r \in { update_product(db, u, 1, payload) } :
            /\ db' = r.db
            /\ last' = [NoOp EXCEPT !.op = "update_product", !.status = r.status,
                                    !.req = payload]
            /\ UNCHANGED <<workload, txn>>

LedgerGetProduct ==
    \E u \in Callers, product_id \in { 1, 3 } :
        \E r \in { get_product(db, u, product_id) } :
            FinishLedger("get_product", r)

LedgerListProducts ==
    \E u \in Callers :
        \E r \in { list_products(db, u) } :
            FinishLedger("list_products", r)

LedgerDeleteProduct ==
    \E u \in Callers, product_id \in { 1, 4 } :
        \E r \in { delete_product(db, u, product_id) } :
            FinishLedger("delete_product", r)

LedgerUpdateCategory ==
    \E u \in Callers,
       \* a forced cascade of both prices
       payload \in { [name |-> None, description |-> None,
                      default_sale_price |-> Some(25),
                      base_purchase_price |-> Some(8),
                      purchase_tiers |-> None, propagate_prices |-> TRUE,
                      propagate_sale_price |-> FALSE,
                      propagate_purchase_cost |-> FALSE] } :
        \E r \in { update_category(db, u, 1, payload) } :
            FinishLedger("update_category", r)

LedgerDeleteCategory ==
    \E u \in Callers, cat_id \in { 1, 4 } :
        \E r \in { delete_category(db, u, cat_id) } :
            FinishLedger("delete_category", r)

\* one purchase order is created, the first
LedgerCreatePurchaseOrder ==
    \E u \in Callers, payload \in CatalogPOCreate :
        /\ db.next_po_id = CatalogInitDb.next_po_id
        /\ \E r \in { create_purchase_order(db, u, payload) } :
              FinishLedger("create_purchase_order", r)

LedgerUpdatePurchaseOrder ==
    \E u \in Callers, po_id \in { CatalogInitDb.next_po_id },
       \* one replacement of the lines by a line of another quantity
       payload \in { [shipping_cost |-> 4, handling_cost |-> 0,
                      items |-> << [product_id |-> 1, quantity |-> 1,
                                    unit_cost |-> 5] >>] } :
        \E r \in { update_purchase_order(db, u, po_id, payload) } :
            FinishLedger("update_purchase_order", r)

LedgerDeletePurchaseOrder ==
    \E u \in Callers, po_id \in { CatalogInitDb.next_po_id } :
        \E r \in { delete_purchase_order(db, u, po_id) } :
            FinishLedger("delete_purchase_order", r)

NextLedger ==
    \/ LedgerCreateSale
    \/ LedgerUpdateSale
    \/ LedgerDeleteSale
    \/ LedgerUpdateProduct
    \/ LedgerGetProduct
    \/ LedgerListProducts
    \/ LedgerDeleteProduct
    \/ LedgerUpdateCategory
    \/ LedgerDeleteCategory
    \/ LedgerCreatePurchaseOrder
    \/ LedgerUpdatePurchaseOrder
    \/ LedgerDeletePurchaseOrder

SpecLedger == InitLedger /\ [][NextLedger]_vars

----------------------------------------------------------------------------
(* Concurrent requests.  Each request runs in its own session (get_db); the   *)
(* sessions share the stored tables.  _get_product is a plain SELECT (no      *)
(* with_for_update, no version column): the first SELECT of a product in a    *)
(* session loads the committed row, later ones return the session's object    *)
(* with its pending value.  commit() flushes UPDATE products SET              *)
(* quantity_in_stock = <session value> for the rows the session changed,      *)
(* inserts the pending rows and commits; the store serialises the flushes of  *)
(* two sessions that write the same row (read committed).                     *)

Txns == {1, 2}

\* items of the concurrent requests
ConcItemInputs ==
    { [product_id |-> 1, quantity |-> 3, unit_price |-> 12],
      [product_id |-> 2, quantity |-> 3, unit_price |-> 12] }

ConcSaleCreate ==
    { [payment_type |-> "", items |-> its] :
        its \in SeqsUpTo(ConcItemInputs, MaxItems) \ { <<>> } }

\* the stored state the concurrent requests start from: one committed sale
ConcInitDb ==
    create_sale(InitDb, 1,
                [payment_type |-> "",
                 items |-> << [product_id |-> 1, quantity |-> 1, unit_price |-> 12] >>]).db

EmptySession ==
    [products |-> << >>, sales |-> << >>, sale_items |-> << >>,
     inventory_logs |-> << >>, next_sale_id |-> 0]

IdleTxn ==
    [pc |-> "idle", op |-> "none", user |-> 0, sale_id |-> 0, req |-> NoReq,
     old_items |-> << >>, i |-> 0, sess |-> EmptySession, orig |-> << >>, status |-> 0]

InitConc ==
    /\ db = ConcInitDb
    /\ last = NoOp
    /\ workload = "conc"
    /\ txn = [t \in Txns |-> IdleTxn]

\* the session's object of a product: loaded from the stored row by the first
\* SELECT that returns it, kept afterwards
Load(t, product_id) ==
    IF product_id \in DOMAIN t.sess.products THEN t
    ELSE [t EXCEPT !.sess.products = @ @@ (product_id :> db.products[product_id]),
                   !.orig = @ @@ (product_id :> db.products[product_id])]

\* create_sale up to its item loop
BeginCreate(t) ==
    \E u \in Callers, req \in ConcSaleCreate :
        /\ txn[t].pc = "idle"
        /\ txn' = [txn EXCEPT ![t] =
                      [IdleTxn EXCEPT !.pc = "apply", !.op = "create_sale", !.user = u,
                                      !.sale_id = 0, !.req = req, !.i = 1]]
        /\ UNCHANGED <<db, last, workload>>

\* update_sale up to its revert loop: _get_sale loads the sale and its items
BeginUpdate(t) ==
    \E u \in Callers, sid \in DOMAIN ConcInitDb.sales, req \in ConcSaleCreate :
        /\ txn[t].pc = "idle"
        /\ \A o \in Txns : ~(txn[o].op = "update_sale" /\ txn[o].sale_id = sid)
        /\ txn' = [txn EXCEPT ![t] =
                      IF IsSet(_get_sale(db, sid, u))
                      THEN [IdleTxn EXCEPT !.pc = "revert", !.op = "update_sale", !.user = u,
                                           !.sale_id = sid, !.req = req, !.i = 1,
                                           !.old_items = SaleItemsOf(db, sid)]
                      ELSE [IdleTxn EXCEPT !.pc = "done", !.op = "update_sale", !.user = u,
                                           !.sale_id = sid, !.req = req, !.status = 404]]
        /\ UNCHANGED <<db, last, workload>>

\* one iteration of the loop of _revert_inventory_for_items
RevertStep(t) ==
    /\ txn[t].pc = "revert"
    /\ LET x == txn[t]
       IN  IF x.i > Len(x.old_items)
           THEN txn' = [txn EXCEPT ![t].pc = "apply", ![t].i = 1]
           ELSE LET it == x.old_items[x.i]
                    y == IF IsSet(_get_product(db, it.product_id, x.user))
                         THEN Load(x, it.product_id) ELSE x
                IN  txn' = [txn EXCEPT ![t] =
                              [y EXCEPT !.i = @ + 1,
                                        !.sess = RevertItem(y.sess, it, x.user,
                                                     "Reverted previous quantity for sale")]]
    /\ UNCHANGED <<db, last, workload>>

\* one iteration of the item loop of create_sale / update_sale
ApplyStep(t) ==
    /\ txn[t].pc = "apply"
    /\ LET x == txn[t]
       IN  IF x.i > Len(x.req.items)
           THEN txn' = [txn EXCEPT ![t].pc = "commit"]
           ELSE LET item == x.req.items[x.i]
                    note == IF x.op = "create_sale" THEN <<"Sold via sale (new)">>
                            ELSE <<"Updated sale", x.sale_id>>
                IN  IF ~IsSet(_get_product(db, item.product_id, x.user))
                    THEN txn' = [txn EXCEPT ![t].pc = "done", ![t].status = 404]
                    ELSE LET y == Load(x, item.product_id)
                         IN  txn' = [txn EXCEPT ![t] =
                                       [y EXCEPT !.i = @ + 1,
                                                 !.sess = SellItem(y.sess, x.sale_id, item, note)]]
    /\ UNCHANGED <<db, last, workload>>

\* the rows the flush writes: the stock of each product the session changed
FlushProducts(stored, x) ==
    [p \in DOMAIN stored |->
        IF p \in DOMAIN x.sess.products /\ x.sess.products[p] # x.orig[p]
        THEN [stored[p] EXCEPT !.quantity_in_stock = x.sess.products[p].quantity_in_stock]
        ELSE stored[p]]

\* db.commit() of a session
Commit(t) ==
    /\ txn[t].pc = "commit"
    /\ LET x == txn[t]
           sid == IF x.op = "create_sale" THEN db.next_sale_id ELSE x.sale_id
           pt == IF x.req.payment_type # "" THEN x.req.payment_type
                 ELSE IF x.op = "create_sale" THEN "cash" ELSE db.sales[sid].payment_type
           row == [user_id |-> x.user, payment_type |-> pt,
                   processing_fee |-> _recalc_processing_fee(pt, credit_card_fee_flat[x.user])]
           kept == IF x.op = "update_sale"
                   THEN SelectSeq(db.sale_items, LAMBDA it : it.sale_id # sid)
                   ELSE db.sale_items
           new_rows == [k \in 1..Len(x.sess.sale_items) |->
                           [x.sess.sale_items[k] EXCEPT !.sale_id = sid]]
       IN  /\ db' = [db EXCEPT
                        !.products = FlushProducts(@, x),
                        !.sales = IF x.op = "create_sale" THEN @ @@ (sid :> row)
                                  ELSE [@ EXCEPT ![sid] = row],
                        !.sale_items = kept \o new_rows,
                        !.inventory_logs = @ \o x.sess.inventory_logs,
                        !.next_sale_id = IF x.op = "create_sale" THEN @ + 1 ELSE @]
           /\ txn' = [txn EXCEPT ![t].pc = "done", ![t].status = 200, ![t].sale_id = sid]
    /\ UNCHANGED <<last, workload>>

NextConc ==
    \E t \in Txns :
        BeginCreate(t) \/ BeginUpdate(t) \/ RevertStep(t) \/ ApplyStep(t) \/ Commit(t)

SpecConc == InitConc /\ [][NextConc]_vars

----------------------------------------------------------------------------
(* Properties of the sale handlers *)

Stock(d, p) == d.products[p].quantity_in_stock

\* every item names a product that user u owns
AllFound(d, u, items) ==
    \A i \in 1..Len(items) :
        /\ items[i].product_id \in DOMAIN d.products
        /\ d.products[items[i].product_id].user_id = u

\* the ledger of d2 is the ledger of d1 followed by one entry per item, of this
\* type and with change_amount = sign * quantity
LedgerGained(d1, d2, items, change_type, sign) ==
    LET n == Len(d1.inventory_logs)
    IN  /\ Len(d2.inventory_logs) = n + Len(items)
        /\ SubSeq(d2.inventory_logs, 1, n) = d1.inventory_logs
        /\ \A i \in 1..Len(items) :
              /\ d2.inventory_logs[n + i].product_id = items[i].product_id
              /\ d2.inventory_logs[n + i].change_type = change_type
              /\ d2.inventory_logs[n + i].change_amount = sign * items[i].quantity

OwnedSales(d, u) == { sid \in DOMAIN d.sales : d.sales[sid].user_id = u }

\* the step is handler op returning this status
Ran(op, status) == last'.op = op /\ last'.status = status

\* C1: after a successful create_sale the stock of every product has changed
\* by minus the sum of the quantities of the items that reference it, and the
\* ledger has gained exactly one "sale" entry per item, with -quantity.
C1_CreateSaleStockAndLedger ==
    [][ Ran("create_sale", 200) =>
          /\ DOMAIN db'.products = DOMAIN db.products
          /\ \A p \in DOMAIN db.products :
                Stock(db', p) - Stock(db, p) = - SumQty(last'.req.items, p)
          /\ LedgerGained(db, db', last'.req.items, "sale", -1) ]_vars

\* a create_sale has committed a sale with two items of the same product
C1_Witness ==
    /\ last.op = "create_sale" /\ last.status = 200
    /\ Len(last.req.items) = 2
    /\ last.req.items[1].product_id = last.req.items[2].product_id
    /\ SaleItemsOf(db, last.sale_id) # << >>

\* C2: for a committed sale and a new item list whose products all exist and
\* belong to the owner, update_sale leaves every product with the stock that
\* delete_sale followed by create_sale of the new items leaves.
C2_UpdateIsDeleteThenCreate ==
    [][ (last'.op = "update_sale" /\ last'.sale_id \in OwnedSales(db, last'.user)
         /\ AllFound(db, last'.user, last'.req.items)) =>
          LET del == delete_sale(db, last'.user, last'.sale_id)
              cre == create_sale(del.db, last'.user, last'.req)
          IN  /\ last'.status = 200 /\ del.status = 200 /\ cre.status = 200
              /\ DOMAIN db'.products = DOMAIN cre.db.products
              /\ \A p \in DOMAIN db'.products : Stock(db', p) = Stock(cre.db, p) ]_vars

\* an update_sale has replaced the items of a sale by items of other quantities
C2_Witness ==
    /\ last.op = "update_sale" /\ last.status = 200
    /\ db.products # last.before
    /\ SaleItemsOf(db, last.sale_id) # << >>

\* C3: create_sale followed at once by delete_sale of that sale returns every
\* product's stock to its value before the create, removes the sale and its
\* items, and appends one "revert_sale" entry with +quantity per item.
C3_CreateThenDeleteRestores ==
    [][ (last.op = "create_sale" /\ last.status = 200
         /\ last'.op = "delete_sale" /\ last'.sale_id = last.sale_id
         /\ last'.user = last.user) =>
          /\ last'.status = 200
          /\ db'.products = last.before
          /\ last.sale_id \notin DOMAIN db'.sales
          /\ SaleItemsOf(db', last.sale_id) = << >>
          /\ LedgerGained(db, db', last.req.items, "revert_sale", 1) ]_vars

\* a delete_sale has removed a two-item sale right after the create_sale that
\* made it
C3_Witness ==
    /\ last.op = "delete_sale" /\ last.status = 200
    /\ last.sale_id \notin DOMAIN db.sales
    /\ LET n == Len(db.inventory_logs)
       IN  /\ n >= 4
           /\ db.inventory_logs[n].note = <<"Sale deleted", last.sale_id>>
           /\ db.inventory_logs[n - 1].note = <<"Sale deleted", last.sale_id>>
           /\ db.inventory_logs[n - 2].note = <<"Sold via sale (new)">>
           /\ db.inventory_logs[n - 3].note = <<"Sold via sale (new)">>

\* C4: a create_sale with an item whose product does not exist or belongs to
\* another user fails with 404 and persists nothing, whatever the position of
\* that item.
C4_CreateSaleFailurePersistsNothing ==
    [][ (last'.op = "create_sale" /\ ~AllFound(db, last'.user, last'.req.items)) =>
          /\ last'.status = 404
          /\ db' = db ]_vars

\* a create_sale has failed at its second item, the first one being sellable
C4_Witness ==
    /\ last.op = "create_sale" /\ last.status = 404 /\ last.failed_at = 2
    /\ AllFound(db, last.user, SubSeq(last.req.items, 1, 1))

\* C5: an update_sale that fails in its new item list leaves the stored state
\* as it was before the update: stock, the sale's items and header, ledger.
C5_UpdateSaleFailureRestoresAll ==
    [][ (last'.op = "update_sale" /\ last'.sale_id \in OwnedSales(db, last'.user)
         /\ ~AllFound(db, last'.user, last'.req.items)) =>
          /\ last'.status = 404
          /\ db' = db ]_vars

\* an update_sale of a sale with items has failed at its second new item
C5_Witness ==
    /\ last.op = "update_sale" /\ last.status = 404 /\ last.failed_at = 2
    /\ last.sale_id \in DOMAIN db.sales
    /\ SaleItemsOf(db, last.sale_id) # << >>

\* C7: a create_sale or update_sale whose items sell more of a product than is
\* in stock succeeds, and the product's stock is exactly what it was (for an
\* update: after the old items were returned) minus the quantity sold: negative.
C7_OversellAllowed ==
    [][ ((last'.op = "create_sale"
          \/ (last'.op = "update_sale" /\ last'.sale_id \in OwnedSales(db, last'.user)))
         /\ AllFound(db, last'.user, last'.req.items)) =>
          /\ last'.status = 200
          /\ \A p \in DOMAIN db.products :
                LET old == IF last'.op = "update_sale"
                           THEN SaleItemsOf(db, last'.sale_id) ELSE << >>
                    before == Stock(db, p) + SumQty(old, p)
                    sold == SumQty(last'.req.items, p)
                IN  sold > before =>
                       /\ Stock(db', p) = before - sold
                       /\ (before >= 0 => Stock(db', p) < 0) ]_vars

\* a create_sale has sold more than was in stock: the stock is negative
C7_Witness ==
    /\ last.op = "create_sale" /\ last.status = 200
    /\ \E p \in DOMAIN db.products :
          /\ last.before[p].quantity_in_stock >= 0
          /\ SumQty(last.req.items, p) > last.before[p].quantity_in_stock
          /\ Stock(db, p) < 0

\* net change that the committed request of session x makes to product p
NetChange(x, p) == SumQty(x.old_items, p) - SumQty(x.req.items, p)

\* C6: when two concurrent create_sale / update_sale requests that sell the same
\* product have both committed, the product's stock is its initial value minus
\* both sold quantities (plus what an update returned): no decrement is lost.
C6_NoLostUpdate ==
    (workload = "conc" /\ \A t \in Txns : txn[t].pc = "done" /\ txn[t].status = 200) =>
        \A p \in DOMAIN db.products :
            Stock(db, p) = Stock(ConcInitDb, p) + NetChange(txn[1], p) + NetChange(txn[2], p)

\* the k-th category above a product: its own category for k = 0, then parents
RECURSIVE CategoryAbove(_, _, _)
CategoryAbove(d, product_id, k) ==
    IF k = 0 THEN category(d, product_id)
    ELSE LET below == CategoryAbove(d, product_id, k - 1)
         IN  IF IsSet(below) THEN parent(d, Val(below)) ELSE None

HasDefaultAt(d, product_id, k) ==
    /\ IsSet(CategoryAbove(d, product_id, k))
    /\ IsSet(d.categories[Val(CategoryAbove(d, product_id, k))].default_sale_price)

\* C8: resolve_sale_price returns the product's own sale_price when it is set
\* (0 included); otherwise the default_sale_price of the nearest category on the
\* chain category, parent, ... that has one; otherwise nothing.
C8_SalePriceResolution ==
    last.op = "resolve_sale_price" =>
        LET p == last.product_id
            Levels == 0..MaxCats
        IN  /\ IsSet(db.products[p].sale_price) => last.result = db.products[p].sale_price
            /\ ~IsSet(db.products[p].sale_price) =>
                  /\ \A k \in Levels :
                        (HasDefaultAt(db, p, k) /\ \A j \in 0..(k - 1) : ~HasDefaultAt(db, p, j))
                          => last.result =
                               db.categories[Val(CategoryAbove(db, p, k))].default_sale_price
                  /\ (\A k \in Levels : ~HasDefaultAt(db, p, k)) => last.result = None

\* a product without own price whose category has default 25 and whose
\* category's parent has default 20 resolved to 25
C8_Witness ==
    /\ last.op = "resolve_sale_price"
    /\ ~IsSet(db.products[last.product_id].sale_price)
    /\ HasDefaultAt(db, last.product_id, 0)
    /\ HasDefaultAt(db, last.product_id, 1)
    /\ db.categories[Val(CategoryAbove(db, last.product_id, 0))].default_sale_price = Some(25)
    /\ db.categories[Val(CategoryAbove(db, last.product_id, 1))].default_sale_price = Some(20)
    /\ last.result = Some(25)

TierSet(cat) == { cat.purchase_tiers[i] : i \in 1..Len(cat.purchase_tiers) }

ReachedTiers(cat, qty) == { t \in TierSet(cat) : t.threshold <= qty }

\* base 10 with tiers (100, 8), (50, 9), stored in that order
ScenarioCategory ==
    [user_id |-> 1, parent_id |-> None, default_sale_price |-> None,
     base_purchase_price |-> Some(10),
     purchase_tiers |-> << [threshold |-> 100, price |-> 8], [threshold |-> 50, price |-> 9] >>]

\* C9: resolve_purchase_price_global returns the override when given; otherwise
\* the price of the tier with the largest threshold <= total_order_qty (a
\* quantity equal to a threshold reaches that tier); otherwise the category's
\* base_purchase_price; otherwise it fails.  Base 10 with tiers (50, 9), (100, 8)
\* gives 10 at 40, 9 at 50 and 60, 8 at 100 and 120.
C9_PurchasePriceResolution ==
    /\ last.op = "resolve_purchase_price_global" =>
        LET cat == db.categories[last.category_id]
            qty == last.total_order_qty
            reached == ReachedTiers(cat, qty)
        IN  IF IsSet(last.override_unit_cost)
            THEN last.result = [ok |-> TRUE, price |-> Val(last.override_unit_cost)]
            ELSE IF reached # {}
            THEN \E t \in reached :
                    /\ \A o \in reached : o.threshold <= t.threshold
                    /\ last.result = [ok |-> TRUE, price |-> t.price]
            ELSE IF IsSet(cat.base_purchase_price)
            THEN last.result = [ok |-> TRUE, price |-> Val(cat.base_purchase_price)]
            ELSE ~last.result.ok
    /\ last.op = "resolve_purchase_price_global" =>
        /\ resolve_purchase_price_global(40, ScenarioCategory, None).price = 10
        /\ resolve_purchase_price_global(50, ScenarioCategory, None).price = 9
        /\ resolve_purchase_price_global(60, ScenarioCategory, None).price = 9
        /\ resolve_purchase_price_global(100, ScenarioCategory, None).price = 8
        /\ resolve_purchase_price_global(120, ScenarioCategory, None).price = 8

\* the category of the scenario, tiers stored larger threshold first, resolved
\* at a quantity equal to the threshold 50 to the price 9
C9_Witness ==
    /\ last.op = "resolve_purchase_price_global"
    /\ db.categories[last.category_id] = ScenarioCategory
    /\ last.total_order_qty = 50
    /\ ~IsSet(last.override_unit_cost)
    /\ last.result = [ok |-> TRUE, price |-> 9]

\* C10: a successful create_purchase_order increases the stock of each line's
\* product by the line quantity and appends one "purchase" ledger entry with
\* +quantity per line.
C10_PurchaseOrderReceivesStock ==
    [][ Ran("create_purchase_order", 201) =>
          /\ \A p \in DOMAIN db.products :
                Stock(db', p) - Stock(db, p) = SumQty(last'.req.items, p)
          /\ LedgerGained(db, db', last'.req.items, "purchase", 1) ]_vars

\* the purchase order tables, the stock and the ledger of d1 and d2 are the same
SamePOStockLedger(d1, d2) ==
    /\ d1.purchase_orders = d2.purchase_orders
    /\ d1.purchase_order_items = d2.purchase_order_items
    /\ d1.products = d2.products
    /\ d1.inventory_logs = d2.inventory_logs

\* C11: create_purchase_order, and update_purchase_order of an order of the
\* caller, with a line whose product does not exist or belongs to another owner
\* fail, and no purchase order, line, stock change or ledger entry is persisted.
C11_POUnknownProductFailsWhole ==
    [][ ( /\ last'.op \in { "create_purchase_order", "update_purchase_order" }
          /\ last'.status # 404
          /\ ~AllFound(db, last'.user, last'.req.items) )
        => ( /\ last'.status \notin { 200, 201 }
             /\ SamePOStockLedger(db, db') ) ]_vars

\* C12: the grand_total of a purchase order, as the model property and as every
\* response (list, get, create, update) reports it, is the sum of quantity *
\* unit_cost over its lines plus shipping_cost; handling_cost has no part in it.
C12_GrandTotalExcludesHandling ==
    /\ \A po_id \in DOMAIN db.purchase_orders :
          grand_total(db, po_id) =
              LinesTotal(POItemsOf(db, po_id)) + db.purchase_orders[po_id].shipping_cost
    /\ ( /\ last.op \in { "create_purchase_order", "update_purchase_order",
                          "get_purchase_order" }
         /\ IsSet(last.out) )
       => Val(last.out).grand_total =
              LinesTotal(Val(last.out).items) + Val(last.out).shipping_cost

\* C13: update_purchase_order and delete_purchase_order, successful or not,
\* leave the stock of every product and the ledger as they were, whatever the
\* old and the new lines.
C13_POEditLeavesStockAndLedger ==
    [][ last'.op \in { "update_purchase_order", "delete_purchase_order" }
        => /\ db'.products = db.products
           /\ db'.inventory_logs = db.inventory_logs ]_vars

\* an update has replaced the lines of an order by lines of another total
\* quantity for product 1, whose stock is still 5
C13_Witness ==
    /\ last.op = "update_purchase_order"
    /\ last.status = 200
    /\ SumQty(last.old_items, 1) = 2
    /\ SumQty(last.req.items, 1) = 4
    /\ POItemsOf(db, last.sale_id) = NewPOItems(last.sale_id, last.req.items)
    /\ Stock(db, 1) = 5
    /\ db.inventory_logs = << >>

\* C14: the unit_cost stored on a purchase-order line is the cost the request
\* gave for that line, whatever the tiers and base price of the product's
\* category; update_category (tier replacement, new base price, cascade with or
\* without force) and update_product change no stored purchase-order line.
C14_POLineCostIsFrozen ==
    [][ /\ Ran("create_purchase_order", 201) =>
            /\ POItemsOf(db', last'.sale_id) = NewPOItems(last'.sale_id, last'.req.items)
            /\ \A po_id \in DOMAIN db.purchase_orders :
                  POItemsOf(db', po_id) = POItemsOf(db, po_id)
        /\ last'.op \in { "update_category", "update_product" } =>
            db'.purchase_order_items = db.purchase_order_items ]_vars

\* category 1 has got base price 8 and new tiers and the forced cascade has set
\* the unit_cost of product 1 to 8, while the order line of product 1 still
\* carries the cost 5 it was created with
C14_Witness ==
    /\ last.op = "update_category"
    /\ last.status = 200
    /\ last.req.propagate_prices
    /\ last.req.base_purchase_price = Some(8)
    /\ db.products[1].unit_cost = Some(8)
    /\ \E k \in 1..Len(db.purchase_order_items) :
          /\ db.purchase_order_items[k].product_id = 1
          /\ db.purchase_order_items[k].unit_cost = 5

\* the update of category cat_id by payload cascades the price field: a cascade
\* flag is set and the payload gives a price that differs from the stored one
Cascades(d, cat_id, payload, price_field, flag) ==
    /\ (payload.propagate_prices \/ payload[flag])
    /\ IsSet(payload[price_field])
    /\ payload[price_field] # d.categories[cat_id][price_field]

\* the products whose field a cascade on category cat_id sets
CascadeTargets(d, cat_id, payload, field) ==
    IF payload.propagate_prices
    THEN { p \in DOMAIN d.products : d.products[p].category_id = Some(cat_id) }
    ELSE { p \in DOMAIN d.products :
             d.products[p].category_id = Some(cat_id) /\ d.products[p][field] = None }

\* between d1 and d2 exactly the targets got the new value in this field
OnlyTargetsSet(d1, d2, targets, field, new_value) ==
    /\ DOMAIN d2.products = DOMAIN d1.products
    /\ \A p \in DOMAIN d1.products :
          d2.products[p][field] = IF p \in targets THEN new_value ELSE d1.products[p][field]

\* C15: a cascading update_category sets sale_price (resp. unit_cost) to the new
\* category price for exactly these products: with propagate_prices every
\* product directly in the category, overrides included; with only
\* propagate_sale_price (resp. propagate_purchase_cost) the products directly in
\* the category whose field was unset.  Products with an override in the
\* non-force case and products of other categories keep their value.
C15_CascadeTargets ==
    [][ Ran("update_category", 200) =>
          LET cat_id == last'.sale_id
              payload == last'.req
          IN  /\ Cascades(db, cat_id, payload, "default_sale_price", "propagate_sale_price")
                    => OnlyTargetsSet(db, db',
                                      CascadeTargets(db, cat_id, payload, "sale_price"),
                                      "sale_price", payload.default_sale_price)
              /\ Cascades(db, cat_id, payload, "base_purchase_price", "propagate_purchase_cost")
                    => OnlyTargetsSet(db, db',
                                      CascadeTargets(db, cat_id, payload, "unit_cost"),
                                      "unit_cost", payload.base_purchase_price) ]_vars

\* a cascade without force of the new default sale price 25 of category 1 has
\* set the inheriting product 1 and has kept the override 30 of product 2 and
\* the unset price of product 4 in the child category
C15_Witness ==
    /\ last.op = "update_category"
    /\ last.status = 200
    /\ last.sale_id = 1
    /\ last.req.propagate_sale_price
    /\ ~last.req.propagate_prices
    /\ last.req.default_sale_price = Some(25)
    /\ db.products[1].sale_price = Some(25)
    /\ db.products[2].sale_price = Some(30)
    /\ 4 \in DOMAIN db.products
    /\ db.products[4].sale_price = None

\* C16: delete_category of a category of the caller that has at least one
\* product attached fails and leaves every table as it was: the category, its
\* tiers, its children and all products with their category references.
C16_DeleteCategoryWithProductsFails ==
    [][ ( /\ last'.op = "delete_category"
          /\ IsSet(_get_category(db, last'.sale_id, last'.user))
          /\ ProductsIn(db, last'.sale_id) # {} )
        => ( /\ last'.status = 400
             /\ db' = db ) ]_vars

\* the deletion of category 1, which holds products 1 and 2 and has the child
\* category 2, was refused
C16_Witness ==
    /\ last.op = "delete_category"
    /\ last.status = 400
    /\ last.sale_id = 1
    /\ ProductsIn(db, 1) = { 1, 2 }
    /\ 2 \in DOMAIN db.categories
    /\ db.categories[2].parent_id = Some(1)
    /\ db.categories[1].purchase_tiers # << >>

\* payment_type is the credit-card variant, in any letter case
IsCreditCard(payment_type) == payment_type \in { "credit_card", "Credit_Card" }

RevertsThenSales(d1, d2, old_items, new_items, revert_type) ==
    LET n == Len(d1.inventory_logs)
        m == Len(old_items)
    IN  /\ Len(d2.inventory_logs) = n + m + Len(new_items)
        /\ SubSeq(d2.inventory_logs, 1, n) = d1.inventory_logs
        /\ \A i \in 1..m :
              /\ d2.inventory_logs[n + i].product_id = old_items[i].product_id
              /\ d2.inventory_logs[n + i].change_type = revert_type
              /\ d2.inventory_logs[n + i].change_amount = old_items[i].quantity
        /\ \A j \in 1..Len(new_items) :
              /\ d2.inventory_logs[n + m + j].product_id = new_items[j].product_id
              /\ d2.inventory_logs[n + m + j].change_type = "sale"
              /\ d2.inventory_logs[n + m + j].change_amount = -new_items[j].quantity

\* C18: a successful update_sale appends, for every item the sale had, one
\* revert_sale_edit entry with +(old quantity), all of them before the "sale"
\* entries of the new items, and the stock ends at old stock + old quantities -
\* new quantities (item (X, 3) sold at stock 5 and edited to (X, 1): stock 4,
\* ledger (sale, -3), (revert_sale_edit, +3), (sale, -1)).
C18_UpdateRevertsBeforeSelling ==
    [][ Ran("update_sale", 200) =>
          LET old_items == SaleItemsOf(db, last'.sale_id)
              new_items == last'.req.items
          IN  /\ RevertsThenSales(db, db', old_items, new_items, "revert_sale_edit")
              /\ \A p \in DOMAIN db.products :
                    Stock(db', p) = Stock(db, p) + SumQty(old_items, p) - SumQty(new_items, p)
      ]_vars

-----------------------------------------------------------------------------
(* Properties of the ledger *)

\* sum of change_amount over the entries of product p
RECURSIVE LedgerSum(_, _)
LedgerSum(logs, p) ==
    IF logs = <<>> THEN 0
    ELSE (IF Head(logs).product_id = p THEN Head(logs).change_amount ELSE 0)
         + LedgerSum(Tail(logs), p)

\* C19: in every reachable state the stock of every product is the stock it
\* was created with plus the sum of change_amount over its ledger entries
\* (every operation that changes stock, update_product setting
\* quantity_in_stock included, appends entries of the same total, and a failed
\* operation changes neither).
C19_StockEqualsLedgerSum ==
    \A p \in DOMAIN db.products :
        Stock(db, p) = CatalogProducts[p].quantity_in_stock
                       + LedgerSum(db.inventory_logs, p)

\* the ledger of d1 is a prefix of the ledger of d2
LedgerPrefix(d1, d2) ==
    /\ Len(d1.inventory_logs) <= Len(d2.inventory_logs)
    /\ SubSeq(d2.inventory_logs, 1, Len(d1.inventory_logs)) = d1.inventory_logs

\* C20: the ledger is append-only: over every operation (sale create, update
\* or delete, product or category update or delete, purchase-order create,
\* update or delete) the ledger before it is a prefix of the ledger after it,
\* so no committed entry is changed or removed.
C20_LedgerAppendOnly == [][ LedgerPrefix(db, db') ]_vars

\* a sale was deleted: its "sale" entry is still there, before the reversal
C20_Witness ==
    /\ last.op = "delete_sale"
    /\ last.status = 200
    /\ \E i, j \in 1..Len(db.inventory_logs) :
          /\ i < j
          /\ db.inventory_logs[i].change_type = "sale"
          /\ db.inventory_logs[j].change_type = "revert_sale"
          /\ db.inventory_logs[j].product_id = db.inventory_logs[i].product_id
          /\ db.inventory_logs[j].change_amount = -db.inventory_logs[i].change_amount

-----------------------------------------------------------------------------
(* Properties of the category tree *)

\* every product is still there with this field unchanged
FieldKept(d1, d2, field) ==
    /\ DOMAIN d2.products = DOMAIN d1.products
    /\ \A p \in DOMAIN d1.products : d2.products[p][field] = d1.products[p][field]

C22_DuplicateThresholdRejected ==
    [][ ( \/ /\ last'.op = "create_category"
             /\ DuplicateThreshold(last'.req.purchase_tiers)
          \/ /\ last'.op = "update_category"
             /\ IsSet(last'.req.purchase_tiers)
             /\ DuplicateThreshold(Val(last'.req.purchase_tiers)) )
        => ( /\ last'.status \in { 400, 404 }
             /\ db' = db ) ]_vars

\* an update of category 1 that carried a new name, description and prices
\* along with a duplicated threshold was refused, and the category has its
\* old name, description and tiers
C22_Witness ==
    /\ last.op = "update_category"
    /\ last.status = 400
    /\ last.sale_id = 1
    /\ last.req.name = Some("z")
    /\ DuplicateThreshold(Val(last.req.purchase_tiers))
    /\ db.categories[1].name = "a"
    /\ db.categories[1].description = None
    /\ db.categories[1].purchase_tiers = TreeInitDb.categories[1].purchase_tiers

\* the tiers of a list, as a set
TiersOf(tiers) == { tiers[i] : i \in 1..Len(tiers) }

\* uq_category_threshold, ck_threshold_nonnegative, ck_price_nonnegative
TiersValid(tiers) ==
    /\ ~DuplicateThreshold(tiers)
    /\ \A i \in 1..Len(tiers) : tiers[i].threshold >= 0 /\ tiers[i].price >= 0

\* C23: in every state reached by create_category and update_category the
\* tiers of each category have pairwise distinct thresholds, thresholds >= 0
\* and prices >= 0; and after a successful update_category that supplies
\* purchase_tiers the tiers of the category are exactly the supplied ones.
C23_TiersValidAndReplaced ==
    /\ [](\A c \in DOMAIN db.categories : TiersValid(db.categories[c].purchase_tiers))
    /\ [][ ( Ran("update_category", 200) /\ IsSet(last'.req.purchase_tiers) )
            => LET new == db'.categories[last'.sale_id].purchase_tiers
                   supplied == Val(last'.req.purchase_tiers)
               IN  /\ Len(new) = Len(supplied)
                   /\ TiersOf(new) = TiersOf(supplied) ]_vars

\* the tier (50, 9) of category 1 was replaced by the supplied (100, 8), (60, 7)
C23_Witness ==
    /\ last.op = "update_category"
    /\ last.status = 200
    /\ last.sale_id = 1
    /\ IsSet(last.req.purchase_tiers)
    /\ db.categories[1].purchase_tiers =
           << [threshold |-> 60, price |-> 7], [threshold |-> 100, price |-> 8] >>

\* the walk `cat = cat.parent` from category c ends within `fuel` steps
RECURSIVE WalkEnds(_, _, _)
WalkEnds(d, c, fuel) ==
    IF ~IsSet(d.categories[c].parent_id) THEN TRUE
    ELSE IF fuel = 0 THEN FALSE
    ELSE /\ Val(d.categories[c].parent_id) \in DOMAIN d.categories
         /\ WalkEnds(d, Val(d.categories[c].parent_id), fuel - 1)

\* C24: in every state reached by create_category, update_category and
\* delete_category every parent is a stored category of the same owner and no
\* category is its own ancestor, so the walk of resolve_sale_price up the
\* parents ends for every product.
C24_TreeAcyclicSameOwner ==
    /\ \A c \in DOMAIN db.categories :
          /\ IsSet(db.categories[c].parent_id) =>
                /\ Val(db.categories[c].parent_id) \in DOMAIN db.categories
                /\ db.categories[Val(db.categories[c].parent_id)].user_id
                      = db.categories[c].user_id
          /\ WalkEnds(db, c, Cardinality(DOMAIN db.categories))
    /\ \A p \in DOMAIN db.products :
          IsSet(db.products[p].category_id) =>
              /\ Val(db.products[p].category_id) \in DOMAIN db.categories
              /\ WalkEnds(db, Val(db.products[p].category_id),
                          Cardinality(DOMAIN db.categories))

\* a category was created below category 2, itself below category 1, after
\* category 3 was deleted together with its child 4
C24_Witness ==
    /\ last.op = "create_category"
    /\ last.status = 200
    /\ db.categories[last.sale_id].parent_id = Some(2)
    /\ db.categories[2].parent_id = Some(1)
    /\ 3 \notin DOMAIN db.categories
    /\ 4 \notin DOMAIN db.categories

\* C26: a successful delete_category removes no category that has products
\* attached, neither the requested one nor a descendant removed with it, and
\* changes the category reference of no product.
C26_DeleteRemovesNoCategoryWithProducts ==
    [][ Ran("delete_category", 200) =>
          /\ \A c \in DOMAIN db.categories \ DOMAIN db'.categories :
                ProductsIn(db, c) = {}
          /\ DOMAIN db'.products = DOMAIN db.products
          /\ \A p \in DOMAIN db.products :
                db'.products[p].category_id = db.products[p].category_id ]_vars

\* the default_sale_price of the nearest category above the product that has
\* one, else nothing
NearestDefault(d, product_id) ==
    LET levels == 0..Cardinality(DOMAIN d.categories)
    IN  IF \E k \in levels : HasDefaultAt(d, product_id, k)
        THEN LET k == CHOOSE k \in levels :
                          /\ HasDefaultAt(d, product_id, k)
                          /\ \A j \in 0..(k - 1) : ~HasDefaultAt(d, product_id, j)
             IN  d.categories[Val(CategoryAbove(d, product_id, k))].default_sale_price
        ELSE None

\* C27 as stated: a product that create_product and update_product never gave
\* a sale price (products 1, 3 and 4 of the tree; no product handler runs)
\* resolves, after any sequence of update_category calls, to the current
\* default_sale_price of the nearest category on its chain that has one.
C27_NeverPricedProductInherits ==
    \A p \in DOMAIN db.products :
        ~IsSet(TreeInitDb.products[p].sale_price)
            => resolve_sale_price(db, p) = NearestDefault(db, p)

\* C27 amended: a product resolves to the nearest default on its chain as
\* long as its stored sale_price is unset; once a cascade of update_category
\* has written a price into it, it resolves to that stored price.
C27_UnsetPriceInherits ==
    \A p \in DOMAIN db.products :
        resolve_sale_price(db, p) =
            IF IsSet(db.products[p].sale_price)
            THEN db.products[p].sale_price
            ELSE NearestDefault(db, p)

\* product 1 never got a price from a product handler; a cascade wrote 25 into
\* it, category 1 went on to 30 without cascade, and product 3 below still
\* inherits the 30
C27_Witness ==
    /\ last.op = "update_category"
    /\ last.status = 200
    /\ db.categories[1].default_sale_price = Some(30)
    /\ db.products[1].sale_price = Some(25)
    /\ resolve_sale_price(db, 1) = Some(25)
    /\ ~IsSet(db.products[3].sale_price)
    /\ resolve_sale_price(db, 3) = Some(30)

-----------------------------------------------------------------------------
(* Properties of the two purchase price resolvers *)

\* the tier of the category that a quantity selects: the reached tier with the
\* largest threshold, else nothing
SelectedTier(cat, qty) ==
    IF ReachedTiers(cat, qty) = {} THEN None
    ELSE Some(CHOOSE t \in ReachedTiers(cat, qty) :
                  \A o \in ReachedTiers(cat, qty) : o.threshold <= t.threshold)

\* C30: given the same category, override and quantity, resolve_purchase_price
\* and resolve_purchase_price_global return the same result (the same price, or
\* both fail); for a purchase-order line their results differ only when the
\* line's quantity and the order-wide quantity select different tiers.
C30_ResolversAgree ==
    last.op = "resolve_purchase_price" =>
        LET cat == db.categories[last.category_id]
        IN  /\ last.per_line = last.same_qty
            /\ last.per_line # last.order_wide
                  => SelectedTier(cat, last.qty) # SelectedTier(cat, last.total_order_qty)

\* a line of 40 units in an order of 120: the legacy resolver gives the base
\* price 10, the order-wide one the tier price 8, and at 40 both give 10
C30_Witness ==
    /\ last.op = "resolve_purchase_price"
    /\ db.categories[last.category_id] = ScenarioCategory
    /\ last.qty = 40
    /\ last.total_order_qty = 120
    /\ ~IsSet(last.override)
    /\ last.per_line = [ok |-> TRUE, price |-> 10]
    /\ last.same_qty = [ok |-> TRUE, price |-> 10]
    /\ last.order_wide = [ok |-> TRUE, price |-> 8]

-----------------------------------------------------------------------------
(* Properties of the sale routes *)

-----------------------------------------------------------------------------
(* Properties of the product handlers *)

\* C25: get_product, list_products and an update_product that supplies no
\* quantity_in_stock leave the stored quantity_in_stock of every product
\* unchanged, also when it is negative after an oversell (so a later
\* delete_sale or update_sale restores from the negative value).
C25_StockKeptWithoutQuantity ==
    [][ ( \/ last'.op \in { "get_product", "list_products" }
          \/ /\ last'.op = "update_product"
             /\ ~IsSet(last'.req.quantity_in_stock) )
        => /\ DOMAIN db'.products = DOMAIN db.products
           /\ \A p \in DOMAIN db.products : Stock(db', p) = Stock(db, p) ]_vars

====
